---- MODULE Spec2Model ----
(***************************************************************************)
(* Model of src/src/github_direct_ingester.py: GitHubDirectIngester's      *)
(* ingestion pipeline (fetch_repository_tree, process_file run in a        *)
(* ThreadPoolExecutor, generate_embeddings_batch, store_chunks_batch and   *)
(* ingest_repository which sequences them).                                *)
(*                                                                         *)
(* External collaborators (GitHub HTTP API, the chunker, the embedding     *)
(* model, the Milvus collection) are nondeterministic inputs: every        *)
(* request may succeed or fail.                                            *)
(***************************************************************************)
EXTENDS Integers, Sequences, FiniteSets, TLC

(***************************************************************************)
(* Program constants.                                                      *)
(***************************************************************************)
\* generate_embeddings_batch(chunks, batch_size = 64)
EmbedBatchSize == 64
\* store_chunks_batch(chunk_metadata_list, embeddings, batch_size = 100)
StoreBatchSize == 100
\* process_file: len(content.strip()) < 50
MinFileLen == 50
\* process_file: len(chunk.strip()) < 30
MinChunkLen == 30

(***************************************************************************)
(* Bounds of the model.                                                    *)
(***************************************************************************)
\* entries of the tree returned by the GitHub API
MaxFiles == 2
\* chunks of an ordinary chunker output (a bulk output is longer, see below)
MaxChunks == 2
\* max_workers values tried: 1 (a sequential pool) and MaxWorkers
MaxWorkers == 2
\* documents handed to a direct call of the two batch methods: 0..MaxDocs
MaxDocs == 201

Min(a, b) == IF a < b THEN a ELSE b

VARIABLES
    pc,                 \* stage of ingest_repository
    outcome,            \* "none" | "success_true" | "success_false" | "raised"
    error,              \* the exception that left ingest_repository, or "none"
    url_ok,             \* input: repo_url matches the GitHub URL pattern
    branch,             \* input: the branch argument of ingest_repository
    max_workers,        \* input: the max_workers argument
    repo_exists,        \* GitHub: GET /repos/{owner}/{name} finds the repository
    repo_branches,      \* GitHub: the branches the repository has
    fetch_branch,       \* branch argument of the running fetch_repository_tree call
    fetch_pc,           \* position inside fetch_repository_tree
    http_log,           \* the requests sent to the GitHub API and their answers
    fallbacks,          \* number of recursive calls with "master"
    files,              \* list returned by fetch_repository_tree
    future,             \* state of the future of each file
    result,             \* outcome of each finished future
    all_chunk_metadata, \* the aggregate list of ingest_repository
    emb_i,              \* loop index of generate_embeddings_batch
    all_embeddings,     \* all_embeddings of generate_embeddings_batch
    encode_calls,       \* the batches handed to embedding_model.encode, in order
    store_i,            \* loop index of store_chunks_batch
    store_pc,           \* "insert" | "flush": next call of the current batch
    inserted,           \* rows inserted and not yet flushed
    persisted,          \* rows flushed to the collection
    insert_calls,       \* the batches handed to collection.insert, in order
    flush_calls,        \* number of collection.flush calls that returned
    stats,              \* files_processed / chunks_generated of the returned dict
    init_pc,            \* position inside GitHubDirectIngester.__init__
    attempt,            \* loop variable of the retry loop being run
    retry_delay,        \* retry_delay of _connect_to_milvus
    scalar_i,           \* number of scalar index fields already tried
    init_calls,         \* calls made by the running __init__ and their outcome
    coll_exists,        \* Milvus: a collection of that name exists
    coll_indexes,       \* Milvus: the fields of the collection that have an index
    coll_loaded,        \* Milvus: the collection is loaded
    constructions,      \* how the earlier __init__ calls ended, in order
    fn_pc,              \* "call" | "returned": the function under study
    fn_in,              \* the arguments of the function under study
    fn_out              \* what the function under study returned

vars == <<pc, outcome, error, url_ok, branch, max_workers, repo_exists,
          repo_branches, fetch_branch, fetch_pc, http_log,
          fallbacks, files, future, result, all_chunk_metadata, emb_i,
          all_embeddings, encode_calls, store_i, store_pc, inserted, persisted,
          insert_calls, flush_calls, stats, init_pc, attempt, retry_delay,
          scalar_i, init_calls, coll_exists, coll_indexes, coll_loaded,
          constructions, fn_pc, fn_in, fn_out>>

inputVars == <<url_ok, branch, max_workers, repo_exists, repo_branches>>
fetchVars == <<fetch_branch, fetch_pc, http_log, fallbacks, files>>
poolVars == <<future, result, all_chunk_metadata>>
embedVars == <<emb_i, all_embeddings, encode_calls>>
storeVars == <<store_i, store_pc, inserted, persisted, insert_calls, flush_calls>>
pipelineVars == <<pc, outcome, error, inputVars, fetchVars, poolVars, embedVars,
                  storeVars, stats>>
ctorVars == <<init_pc, attempt, retry_delay, scalar_i, init_calls, coll_exists,
              coll_indexes, coll_loaded, constructions>>
fnVars == <<fn_pc, fn_in, fn_out>>

(***************************************************************************)
(* GitHubDirectIngester.__init__: _connect_to_milvus, then                 *)
(* _setup_enhanced_collection.  Every Milvus call may succeed or raise.    *)
(***************************************************************************)
\* max_retries = 3
max_retries == 3
\* retry_delay = 2
InitialRetryDelay == 2
\* max_create_retries = 3
max_create_retries == 3
\* time.sleep(3) between two creation attempts
CreateCooldown == 3
\* scalar_indexes
scalar_indexes == <<"file_type", "language", "repo_name", "has_images", "has_code">>
\* Bound: number of GitHubDirectIngester objects constructed one after another.
MaxConstructions == 2

\* One call made by __init__: what was called, with what, and whether it
\* returned (ok) or raised.
Call(op, arg, ok) == [op |-> op, arg |-> arg, ok |-> ok]

\* The state of an object whose __init__ has returned.
Constructed ==
    /\ init_pc = "ready"
    /\ attempt = 0
    /\ retry_delay = InitialRetryDelay
    /\ scalar_i = 0
    /\ init_calls = <<>>
    /\ coll_exists = TRUE
    /\ coll_indexes = {}
    /\ coll_loaded = TRUE
    /\ constructions = <<>>

\* No function is under study.
FnIdle ==
    /\ fn_pc = "returned"
    /\ fn_in = <<>>
    /\ fn_out = <<>>

\* Mutant: the retry budget is never exhausted.
MayRetryMut(a, max) == TRUE

\* if attempt < max_retries - 1 / if attempt < max_create_retries - 1
MayRetry(a, max) == a < max - 1

\* Mutant: the delay stays what it was.
NextDelayMut(d) == d

\* retry_delay *= 2
NextDelay(d) == d * 2

\* An exception leaves __init__: no object is constructed.
InitRaise == init_pc' = "failed"

\* One iteration of the loop of _connect_to_milvus (lines 107-151):
\* connections.connect and utility.list_collections, return on success; on an
\* exception sleep and double the delay, or re-raise on the last attempt.
\* An exception of the preceding connections.disconnect is swallowed.
ConnectAttempt ==
    /\ init_pc = "connect"
    /\ \E ok \in BOOLEAN :
         IF ok
         THEN /\ init_calls' = Append(init_calls, Call("connect", attempt, TRUE))
              /\ init_pc' = "sample"
              /\ UNCHANGED <<attempt, retry_delay>>
         ELSE IF MayRetry(attempt, max_retries)
         THEN /\ init_calls' = init_calls \o <<Call("connect", attempt, FALSE),
                                     Call("sleep", retry_delay, TRUE)>>
              /\ retry_delay' = NextDelay(retry_delay)
              /\ attempt' = attempt + 1
              /\ UNCHANGED init_pc
         ELSE /\ init_calls' = Append(init_calls, Call("connect", attempt, FALSE))
              /\ InitRaise
              /\ UNCHANGED <<attempt, retry_delay>>
    /\ UNCHANGED <<scalar_i, coll_exists, coll_indexes, coll_loaded, constructions,
                   pipelineVars, fnVars>>

\* _setup_enhanced_collection, lines 156-157: the sample embedding that gives
\* the vector dimension; it is outside the try block.
SampleEmbedding ==
    /\ init_pc = "sample"
    /\ \E ok \in BOOLEAN :
         /\ init_calls' = Append(init_calls, Call("encode", "test", ok))
         /\ IF ok THEN init_pc' = "has_collection" ELSE InitRaise
    /\ UNCHANGED <<attempt, retry_delay, scalar_i, coll_exists, coll_indexes,
                   coll_loaded, constructions, pipelineVars, fnVars>>

\* Mutant: the collection is never found.
CollectionFoundMut(exists) == FALSE

\* if utility.has_collection(self.collection_name):
CollectionFound(exists) == exists

\* Line 220: utility.has_collection; an exception goes to the outer except
\* block, which re-raises it.
HasCollection ==
    /\ init_pc = "has_collection"
    /\ \E ok \in BOOLEAN :
         /\ init_calls' = Append(init_calls, Call("has_collection", coll_exists, ok))
         /\ IF ~ok
            THEN InitRaise /\ UNCHANGED attempt
            ELSE IF CollectionFound(coll_exists)
            THEN init_pc' = "reuse" /\ UNCHANGED attempt
            ELSE init_pc' = "create" /\ attempt' = 0
    /\ UNCHANGED <<retry_delay, scalar_i, coll_exists, coll_indexes, coll_loaded,
                   constructions, pipelineVars, fnVars>>

\* Lines 222-225: Collection(name), load(), return.
ReuseCollection ==
    /\ init_pc = "reuse"
    /\ \E ok \in BOOLEAN :
         /\ init_calls' = Append(init_calls, Call("load", "existing", ok))
         /\ IF ok
            THEN init_pc' = "ready" /\ coll_loaded' = TRUE
            ELSE InitRaise /\ UNCHANGED coll_loaded
    /\ UNCHANGED <<attempt, retry_delay, scalar_i, coll_exists, coll_indexes,
                   constructions, pipelineVars, fnVars>>

\* Lines 238-242: the clean-up between two creation attempts.  has_collection
\* may raise, and so may drop_collection; both are swallowed.  The result
\* is the calls made and whether the collection exists afterwards.
Cleanups(exists) ==
    {[made |-> <<Call("has_collection", exists, FALSE)>>, exists |-> exists]}
    \cup (IF exists
          THEN {[made |-> <<Call("has_collection", TRUE, TRUE),
                            Call("drop", "partial", TRUE)>>,
                 exists |-> FALSE],
                [made |-> <<Call("has_collection", TRUE, TRUE),
                            Call("drop", "partial", FALSE)>>,
                 exists |-> TRUE]}
          ELSE {[made |-> <<Call("has_collection", FALSE, TRUE)>>,
                 exists |-> FALSE]})

\* One iteration of the creation loop (lines 229-245): Collection(name,
\* schema) and break; on an exception sleep, clean up and go on, or re-raise
\* on the last attempt.  A failed creation may leave a partial collection.
CreateAttempt ==
    /\ init_pc = "create"
    /\ \E ok \in BOOLEAN :
         IF ok
         THEN /\ init_calls' = Append(init_calls, Call("create", attempt, TRUE))
              /\ coll_exists' = TRUE
              /\ coll_indexes' = {}
              /\ init_pc' = "index_vector"
              /\ UNCHANGED attempt
         ELSE \E partial \in {coll_exists, TRUE} :
              IF MayRetry(attempt, max_create_retries)
              THEN \E c \in Cleanups(partial) :
                     /\ init_calls' = init_calls
                                 \o <<Call("create", attempt, FALSE),
                                      Call("sleep", CreateCooldown, TRUE)>>
                                 \o c.made
                     /\ coll_exists' = c.exists
                     /\ attempt' = attempt + 1
                     /\ UNCHANGED <<init_pc, coll_indexes>>
              ELSE /\ init_calls' = Append(init_calls, Call("create", attempt, FALSE))
                   /\ coll_exists' = partial
                   /\ InitRaise
                   /\ UNCHANGED <<attempt, coll_indexes>>
    /\ UNCHANGED <<retry_delay, scalar_i, coll_loaded, constructions,
                   pipelineVars, fnVars>>

\* A setup that goes on to the scalar indexes whatever happened to the
\* vector index.
AfterVectorIndexMut(ok) == "index_scalar"

\* Where _setup_enhanced_collection goes after create_index("embedding"): an
\* exception leaves the outer try block of lines 248-267.
AfterVectorIndex(ok) == IF ok THEN "index_scalar" ELSE "load"

\* Line 254: the vector index.
CreateVectorIndex ==
    /\ init_pc = "index_vector"
    /\ \E ok \in BOOLEAN :
         /\ init_calls' = Append(init_calls, Call("create_index", "embedding", ok))
         /\ coll_indexes' = IF ok THEN coll_indexes \cup {"embedding"} ELSE coll_indexes
         /\ init_pc' = AfterVectorIndex(ok)
    /\ scalar_i' = 0
    /\ UNCHANGED <<attempt, retry_delay, coll_exists, coll_loaded, constructions,
                   pipelineVars, fnVars>>

\* Mutant: a failed scalar index aborts the setup.
AfterScalarIndexMut(i, ok) ==
    IF ~ok THEN "failed" ELSE IF i = Len(scalar_indexes) THEN "load" ELSE "index_scalar"

\* Where the loop of lines 259-264 goes after its i-th field: each field
\* has its own try block.
AfterScalarIndex(i, ok) == IF i = Len(scalar_indexes) THEN "load" ELSE "index_scalar"

\* Lines 259-264: one scalar index.
CreateScalarIndex ==
    /\ init_pc = "index_scalar"
    /\ \E ok \in BOOLEAN :
         LET field == scalar_indexes[scalar_i + 1]
         IN  /\ init_calls' = Append(init_calls, Call("create_index", field, ok))
             /\ coll_indexes' = IF ok THEN coll_indexes \cup {field} ELSE coll_indexes
             /\ init_pc' = AfterScalarIndex(scalar_i + 1, ok)
    /\ scalar_i' = scalar_i + 1
    /\ UNCHANGED <<attempt, retry_delay, coll_exists, coll_loaded, constructions,
                   pipelineVars, fnVars>>

\* Line 270: self.collection.load(), inside the outer try block.
LoadCollection ==
    /\ init_pc = "load"
    /\ \E ok \in BOOLEAN :
         /\ init_calls' = Append(init_calls, Call("load", "created", ok))
         /\ IF ok
            THEN init_pc' = "ready" /\ coll_loaded' = TRUE
            ELSE InitRaise /\ UNCHANGED coll_loaded
    /\ UNCHANGED <<attempt, retry_delay, scalar_i, coll_exists, coll_indexes,
                   constructions, pipelineVars, fnVars>>

\* Another GitHubDirectIngester is constructed against the same Milvus.
Construct ==
    /\ init_pc \in {"ready", "failed"}
    /\ pc = "NotCalled"
    /\ Len(constructions) < MaxConstructions - 1
    /\ constructions' = Append(constructions, init_pc)
    /\ init_pc' = "connect"
    /\ attempt' = 0
    /\ retry_delay' = InitialRetryDelay
    /\ scalar_i' = 0
    /\ init_calls' = <<>>
    /\ UNCHANGED <<coll_exists, coll_indexes, coll_loaded, pipelineVars, fnVars>>


(***************************************************************************)
(* Inputs and the GitHub API.                                              *)
(***************************************************************************)
Branches == {"main", "master", "develop"}

\* The branches a repository may have: one that uses the older default name
\* only, and one with the newer default name and a feature branch.
RepoBranchSets == {{"master"}, {"main", "develop"}}

\* Answers that are neither 2xx nor 404: authorization, rate limit, server
\* error, and requests.get itself raising (no answer at all).
FaultStatuses == {"403", "500", "neterr"}

\* GET https://api.github.com/repos/{owner}/{name}: the URL does not hold the
\* branch, so the truthful answer depends on the repository alone.
RepoStatuses == (IF repo_exists THEN {"200"} ELSE {"404"}) \cup FaultStatuses

\* GET .../git/trees/{branch}?recursive=1
TreeStatuses(b) == (IF b \in repo_branches THEN {"200"} ELSE {"404"}) \cup FaultStatuses

\* self.supported_extensions
supported_extensions ==
    {".md", ".txt", ".rst", ".py", ".js", ".ts", ".java", ".cpp", ".c", ".h",
     ".css", ".html", ".xml", ".json", ".yaml", ".yml", ".toml", ".ini",
     ".sh", ".bat", ".ps1", ".go", ".rs", ".rb", ".php", ".sql", ".r"}

\* The kinds of entry a tree answer holds: a supported file, an unsupported
\* file, a directory.
EntryKinds ==
    {[type |-> "blob", ext |-> ".md"],
     [type |-> "blob", ext |-> ".png"],
     [type |-> "tree", ext |-> ""]}

\* tree_data['tree']: entry i has path i.
Trees == UNION {[1..n -> EntryKinds] : n \in 0..MaxFiles}

\* str.lower() of a suffix; the suffixes used here are ".md", ".png", "" and
\* the three with capitals.
Lower(ext) ==
    CASE ext = ".MD" -> ".md"
      [] ext = ".Py" -> ".py"
      [] ext = ".PNG" -> ".png"
      [] OTHER -> ext

\* Mutant: the type of the entry is not looked at.
EligibleMut(item) ==
    Lower(item.ext) \in supported_extensions \/ Lower(item.ext) = ""

\* if item['type'] == 'blob' ... if file_extension in supported or not file_extension
Eligible(item) ==
    /\ item.type = "blob"
    /\ (Lower(item.ext) \in supported_extensions \/ Lower(item.ext) = "")

\* The files list built by fetch_repository_tree(.., b) from a tree answer; the
\* four URLs of a descriptor embed b.
FilterTree(tree, b) ==
    LET items == [i \in 1..Len(tree) |->
                    [path |-> i, type |-> tree[i].type, ext |-> tree[i].ext]]
        kept == SelectSeq(items, Eligible)
    IN  [k \in 1..Len(kept) |->
            [path |-> kept[k].path, extension |-> Lower(kept[k].ext), url_branch |-> b]]

\* Mutant: the fallback is tried whatever branch was asked for.
ShouldFallbackMut(b) == TRUE

\* if branch == "main": return self.fetch_repository_tree(.., "master")
ShouldFallback(b) == b = "main"

\* Mutant: the except block reports the failure instead of re-raising it.
RaiseMut(err) ==
    /\ pc' = "Done"
    /\ outcome' = "success_false"
    /\ error' = err

\* An exception leaves ingest_repository (logged and re-raised at 959-961, or
\* raised before the try block).
Raise(err) ==
    /\ pc' = "Failed"
    /\ outcome' = "raised"
    /\ error' = err

NoResult == [raised |-> FALSE, records |-> <<>>]

Init ==
    /\ pc = "Parse"
    /\ outcome = "none"
    /\ error = "none"
    /\ url_ok \in BOOLEAN
    /\ branch \in Branches
    /\ max_workers \in {1, MaxWorkers}
    /\ repo_exists \in BOOLEAN
    /\ repo_branches \in RepoBranchSets
    /\ fetch_branch = branch
    /\ fetch_pc = "idle"
    /\ http_log = <<>>
    /\ fallbacks = 0
    /\ files = <<>>
    /\ future = <<>>
    /\ result = <<>>
    /\ all_chunk_metadata = <<>>
    /\ emb_i = 0
    /\ all_embeddings = <<>>
    /\ encode_calls = <<>>
    /\ store_i = 0
    /\ store_pc = "insert"
    /\ inserted = <<>>
    /\ persisted = <<>>
    /\ insert_calls = <<>>
    /\ flush_calls = 0
    /\ stats = [files_processed |-> 0, chunks_generated |-> 0]
    /\ Constructed
    /\ FnIdle

\* ingest_repository, lines 859-874: parse repo_url, then call
\* fetch_repository_tree(repo_owner, repo_name, branch).
ParseUrl ==
    /\ pc = "Parse"
    /\ IF url_ok
       THEN /\ pc' = "ResolvingTree"
            /\ fetch_pc' = "repo_lookup"
            /\ UNCHANGED <<outcome, error>>
       ELSE /\ Raise("ValueError_InvalidURL")
            /\ UNCHANGED fetch_pc
    /\ UNCHANGED <<inputVars, fetch_branch, http_log, fallbacks, files, poolVars,
                   embedVars, storeVars, stats, ctorVars, fnVars>>

\* One request and its answer, as the log keeps them.
Request(kind, b, status) == [kind |-> kind, branch |-> b, status |-> status]

\* Mutant: every answer that is not a success is taken for not found.
IsNotFoundMut(status) == status # "200"

\* if response.status_code == 404
IsNotFound(status) == status = "404"

\* fetch_repository_tree, lines 298-311: the repository lookup, the fallback
\* to "master" (a recursive call, which starts with the lookup again) and the
\* errors.
RepoLookup ==
    /\ pc = "ResolvingTree"
    /\ fetch_pc = "repo_lookup"
    /\ \E status \in RepoStatuses :
          /\ http_log' = Append(http_log, Request("repo", fetch_branch, status))
          /\ IF status = "neterr"
             THEN /\ Raise("ConnectionError")
                  /\ UNCHANGED <<fetch_branch, fetch_pc, fallbacks>>
             ELSE IF IsNotFound(status)
             THEN IF ShouldFallback(fetch_branch)
                  THEN /\ fetch_branch' = "master"
                       /\ fallbacks' = fallbacks + 1
                       /\ UNCHANGED <<pc, outcome, error, fetch_pc>>
                  ELSE /\ Raise("ValueError_NotFound")
                       /\ UNCHANGED <<fetch_branch, fetch_pc, fallbacks>>
             ELSE IF status = "200"
             THEN /\ fetch_pc' = "tree_lookup"
                  /\ UNCHANGED <<pc, outcome, error, fetch_branch, fallbacks>>
             ELSE /\ Raise("HTTPError")
                  /\ UNCHANGED <<fetch_branch, fetch_pc, fallbacks>>
    /\ UNCHANGED <<inputVars, files, poolVars, embedVars, storeVars, stats, ctorVars, fnVars>>

\* fetch_repository_tree, lines 313-342: the tree request, raise_for_status
\* (which raises for 404 as for any other 4xx or 5xx), and the filter over the
\* entries.
TreeLookup ==
    /\ pc = "ResolvingTree"
    /\ fetch_pc = "tree_lookup"
    /\ \E status \in TreeStatuses(fetch_branch) :
          /\ http_log' = Append(http_log, Request("tree", fetch_branch, status))
          /\ IF status = "neterr"
             THEN /\ Raise("ConnectionError")
                  /\ UNCHANGED <<fetch_pc, files>>
             ELSE IF status = "200"
             THEN /\ \E tree \in Trees : files' = FilterTree(tree, fetch_branch)
                  /\ fetch_pc' = "returned"
                  /\ UNCHANGED <<pc, outcome, error>>
             ELSE /\ Raise("HTTPError")
                  /\ UNCHANGED <<fetch_pc, files>>
    /\ UNCHANGED <<inputVars, fetch_branch, fallbacks, poolVars, embedVars,
                   storeVars, stats, ctorVars, fnVars>>

(***************************************************************************)
(* process_file and the worker pool.                                       *)
(***************************************************************************)
\* What fetch_file_content can return, as len(content.strip()): -1 stands for
\* None (the request or the decoding failed), 0 for empty or blank content.
NoContent == 0 - 1
Contents == {NoContent, 0, MinChunkLen, MinFileLen - 1, MinFileLen}

\* A chunk text, as len(chunk.strip()): one below the threshold, one at it.
ChunkLens == {MinChunkLen - 1, MinChunkLen}

\* A long file: as many chunks as a storage batch holds, none of them small.
BulkChunks == [i \in 1..StoreBatchSize |-> MinChunkLen]

\* What semantic_chunk_content can return for a file (the chunker is external).
ChunkerOutputs == UNION {[1..n -> ChunkLens] : n \in 0..MaxChunks} \cup {BulkChunks}

\* The chunk_metadata dict of chunk k (1-based here) of chunks: 'chunk_index'
\* is the index enumerate(chunks) gives, counted from 0 over every chunk the
\* chunker returned.
ChunkRecord(file_info, b, chunks, k) ==
    [file_path |-> file_info.path,
     chunk_index |-> k - 1,
     document |-> [src |-> file_info.path, pos |-> k - 1, slen |-> chunks[k]],
     branch |-> b]

\* Mutant: no chunk is small.
SmallChunkMut(chunk) == FALSE

\* if len(chunk.strip()) < 30: continue
SmallChunk(chunk) == chunk < MinChunkLen

\* Mutant: the records are listed from the last chunk to the first.
BuildRecordsMut(file_info, b, chunks) ==
    LET positions == [k \in 1..Len(chunks) |-> k]
        kept == SelectSeq(positions, LAMBDA k : ~SmallChunk(chunks[k]))
    IN  [j \in 1..Len(kept) |->
            ChunkRecord(file_info, b, chunks, kept[Len(kept) + 1 - j])]

\* The loop of lines 700-765: a record for every chunk that is not small, in
\* the chunker's order.
BuildRecords(file_info, b, chunks) ==
    LET positions == [k \in 1..Len(chunks) |-> k]
        kept == SelectSeq(positions, LAMBDA k : ~SmallChunk(chunks[k]))
    IN  [j \in 1..Len(kept) |-> ChunkRecord(file_info, b, chunks, kept[j])]

\* Mutant: the file threshold is that of the chunks.
SkipFileMut(content) == content = NoContent \/ content < MinChunkLen

\* if not content or len(content.strip()) < 50: return []
SkipFile(content) == content = NoContent \/ content < MinFileLen

\* process_file(file_info, repo_owner, repo_name, b) for one choice of what the
\* collaborators do: the content fetched, whether link extraction, analysis or
\* the chunker raises, and what the chunker returns.
process_file(file_info, b, content, raises, chunks) ==
    IF SkipFile(content) THEN [raised |-> FALSE, records |-> <<>>]
    ELSE IF raises THEN [raised |-> TRUE, records |-> <<>>]
    ELSE [raised |-> FALSE,
          records |-> BuildRecords(file_info, b, chunks)]

FileIds == 1..Len(files)
Running == {f \in FileIds : future[f] = "running"}

\* lines 883-887: every file is submitted to the executor.
SubmitFiles ==
    /\ pc = "ResolvingTree"
    /\ fetch_pc = "returned"
    /\ pc' = "ProcessingFiles"
    /\ future' = [f \in FileIds |-> "pending"]
    /\ result' = [f \in FileIds |-> NoResult]
    /\ UNCHANGED <<outcome, error, inputVars, fetchVars, all_chunk_metadata,
                   embedVars, storeVars, stats, ctorVars, fnVars>>

\* Mutant: a task starts whether a worker is free or not.
CanStartMut(f) ==
    /\ future[f] = "pending"
    /\ \A g \in FileIds : g < f => future[g] # "pending"

\* A worker thread of the pool takes the oldest pending work item.
CanStart(f) ==
    /\ future[f] = "pending"
    /\ \A g \in FileIds : g < f => future[g] # "pending"
    /\ Cardinality(Running) < max_workers

StartTask(f) ==
    /\ pc = "ProcessingFiles"
    /\ CanStart(f)
    /\ future' = [future EXCEPT ![f] = "running"]
    /\ UNCHANGED <<pc, outcome, error, inputVars, fetchVars, result,
                   all_chunk_metadata, embedVars, storeVars, stats, ctorVars, fnVars>>

\* process_single_file(file_info) runs to its end in its worker: it returns a
\* list or raises, and the future keeps either.
FinishTask(f) ==
    /\ pc = "ProcessingFiles"
    /\ future[f] = "running"
    /\ \E content \in Contents :
          IF SkipFile(content)
          THEN result' = [result EXCEPT ![f] =
                            process_file(files[f], branch, content, FALSE, <<>>)]
          ELSE \E raises \in BOOLEAN :
                  IF raises
                  THEN result' = [result EXCEPT ![f] =
                            process_file(files[f], branch, content, TRUE, <<>>)]
                  ELSE \E chunks \in ChunkerOutputs :
                          result' = [result EXCEPT ![f] =
                            process_file(files[f], branch, content, FALSE, chunks)]
    /\ future' = [future EXCEPT ![f] = "finished"]
    /\ UNCHANGED <<pc, outcome, error, inputVars, fetchVars, all_chunk_metadata,
                   embedVars, storeVars, stats, ctorVars, fnVars>>

\* Mutant: the collecting loop keeps the records of the last file only.
CollectedOverwriteMut(agg, res) == IF res.raised THEN agg ELSE res.records

\* Mutant: a task's exception empties the aggregate list.
CollectedMut(agg, res) == IF res.raised THEN <<>> ELSE agg \o res.records

\* The aggregate list after the collecting loop took one finished future:
\* future.result() re-raises the task's exception, which is logged (890-895).
Collected(agg, res) == IF res.raised THEN agg ELSE agg \o res.records

\* One iteration of `for future in as_completed(future_to_file)`.
CollectResult(f) ==
    /\ pc = "ProcessingFiles"
    /\ future[f] = "finished"
    /\ all_chunk_metadata' = Collected(all_chunk_metadata, result[f])
    /\ future' = [future EXCEPT ![f] = "collected"]
    /\ UNCHANGED <<pc, outcome, error, inputVars, fetchVars, result, embedVars,
                   storeVars, stats, ctorVars, fnVars>>

\* Mutant: the pool is left as soon as no task is waiting for a worker.
PoolDrainedMut == \A f \in FileIds : future[f] # "pending"

\* as_completed is exhausted and the executor's with block is left once every
\* future is done and has been yielded.
PoolDrained == \A f \in FileIds : future[f] = "collected"

\* Mutant: the empty-list check is missing.
NoChunksMut(agg) == FALSE

\* if not all_chunk_metadata
NoChunks(agg) == agg = <<>>

\* lines 897-908: no chunk means {'success': False}; else the embedding stage
\* starts.
FinishProcessing ==
    /\ pc = "ProcessingFiles"
    /\ PoolDrained
    /\ IF NoChunks(all_chunk_metadata)
       THEN /\ pc' = "Done"
            /\ outcome' = "success_false"
       ELSE /\ pc' = "GeneratingEmbeddings"
            /\ UNCHANGED outcome
    /\ UNCHANGED <<error, inputVars, fetchVars, poolVars, embedVars, storeVars, stats, ctorVars, fnVars>>


(***************************************************************************)
(* generate_embeddings_batch and store_chunks_batch.                       *)
(***************************************************************************)
\* The embedding model: a pure function from a text to a vector.
Embed(doc) == doc.src * 100000 + doc.pos * 100 + doc.slen

\* embedding_model.encode(batch): one vector per text, in the batch's order.
Encode(batch) == [k \in 1..Len(batch) |-> Embed(batch[k])]

\* Python's s[i:j] for 0 <= i, as 1-based positions kept.
Slice(s, i, j) ==
    LET hi == Min(j, Len(s))
    IN  IF i >= hi THEN <<>> ELSE [k \in 1..(hi - i) |-> s[i + k]]

\* chunks = [item['document'] for item in all_chunk_metadata]
Documents(meta) == [k \in 1..Len(meta) |-> meta[k].document]

\* Mutant: the next batch starts on the last item of the one before.
NextIndexMut(i, batch_size) == i + batch_size - 1

\* for i in range(0, len(chunks), batch_size): the next value of i.
NextIndex(i, batch_size) == i + batch_size

\* Mutant: the slice is one document too long.
EmbedBatchOfMut(chunks, i) == Slice(chunks, i, i + EmbedBatchSize + 1)

\* batch = chunks[i:i + batch_size]
EmbedBatchOf(chunks, i) == Slice(chunks, i, i + EmbedBatchSize)

\* Mutant: the vectors of a batch are put in front of the earlier ones.
ExtendEmbeddingsMut(all, vectors) == vectors \o all

\* all_embeddings.extend(embeddings.tolist())
ExtendEmbeddings(all, vectors) == all \o vectors

\* One iteration of the loop of generate_embeddings_batch (775-788): encode
\* returns the batch's vectors or raises.
EmbedBatch ==
    /\ pc = "GeneratingEmbeddings"
    /\ emb_i < Len(all_chunk_metadata)
    /\ LET batch == EmbedBatchOf(Documents(all_chunk_metadata), emb_i)
       IN  /\ encode_calls' = Append(encode_calls, <<emb_i, Len(batch)>>)
           /\ \E ok \in BOOLEAN :
                 IF ok
                 THEN /\ all_embeddings' = ExtendEmbeddings(all_embeddings, Encode(batch))
                      /\ emb_i' = NextIndex(emb_i, EmbedBatchSize)
                      /\ UNCHANGED <<pc, outcome, error>>
                 ELSE /\ Raise("EmbeddingError")
                      /\ UNCHANGED <<emb_i, all_embeddings>>
    /\ UNCHANGED <<inputVars, fetchVars, poolVars, storeVars, stats, ctorVars, fnVars>>

\* return all_embeddings (790); ingest_repository goes on to storage (912-915).
EmbedReturn ==
    /\ pc = "GeneratingEmbeddings"
    /\ emb_i >= Len(all_chunk_metadata)
    /\ pc' = "Storing"
    /\ UNCHANGED <<outcome, error, inputVars, fetchVars, poolVars, embedVars,
                   storeVars, stats, ctorVars, fnVars>>

\* Mutant: the batch is one record too long.
EndIdxMut(i, n) == Min(i + StoreBatchSize + 1, n)

\* end_idx = min(i + batch_size, len(chunk_metadata_list))
EndIdx(i, n) == Min(i + StoreBatchSize, n)

\* insert_data of one batch (802-839), row by row: the fields of
\* batch_metadata[k] beside batch_embeddings[k].  The two slices have the same
\* length whenever embeddings holds one vector per record, which is how both
\* callers below build it.
InsertData(meta, embeddings, i) ==
    LET batch_metadata == Slice(meta, i, EndIdx(i, Len(meta)))
        batch_embeddings == Slice(embeddings, i, EndIdx(i, Len(meta)))
    IN  [k \in 1..Len(batch_metadata) |->
            [file_path |-> batch_metadata[k].file_path,
             chunk_index |-> batch_metadata[k].chunk_index,
             document |-> batch_metadata[k].document,
             embedding |-> batch_embeddings[k]]]

\* self.collection.insert(insert_data) (841): the rows are handed to the
\* collection, or the call raises.
StoreInsert ==
    /\ pc = "Storing"
    /\ store_pc = "insert"
    /\ store_i < Len(all_chunk_metadata)
    /\ LET rows == InsertData(all_chunk_metadata, all_embeddings, store_i)
       IN  /\ insert_calls' = Append(insert_calls, <<store_i, Len(rows)>>)
           /\ \E ok \in BOOLEAN :
                 IF ok
                 THEN /\ inserted' = rows
                      /\ store_pc' = "flush"
                      /\ UNCHANGED <<pc, outcome, error>>
                 ELSE /\ Raise("StorageError")
                      /\ UNCHANGED <<inserted, store_pc>>
    /\ UNCHANGED <<inputVars, fetchVars, poolVars, embedVars, store_i, persisted,
                   flush_calls, stats, ctorVars, fnVars>>

\* self.collection.flush() (842): a flush that returns makes the inserted rows
\* durable; one that raises leaves them unflushed and ends the run.
StoreFlush ==
    /\ pc = "Storing"
    /\ store_pc = "flush"
    /\ \E ok \in BOOLEAN :
          IF ok
          THEN /\ persisted' = persisted \o inserted
               /\ inserted' = <<>>
               /\ flush_calls' = flush_calls + 1
               /\ store_i' = NextIndex(store_i, StoreBatchSize)
               /\ store_pc' = "insert"
               /\ UNCHANGED <<pc, outcome, error>>
          ELSE /\ Raise("StorageError")
               /\ UNCHANGED <<persisted, inserted, flush_calls, store_i, store_pc>>
    /\ UNCHANGED <<inputVars, fetchVars, poolVars, embedVars, insert_calls, stats, ctorVars, fnVars>>

\* The loop of store_chunks_batch is exhausted; ingest_repository returns its
\* summary (916-957).
StoreReturn ==
    /\ pc = "Storing"
    /\ store_pc = "insert"
    /\ store_i >= Len(all_chunk_metadata)
    /\ pc' = "Done"
    /\ outcome' = "success_true"
    /\ stats' = [files_processed |-> Len(files),
                 chunks_generated |-> Len(all_chunk_metadata)]
    /\ UNCHANGED <<error, inputVars, fetchVars, poolVars, embedVars, storeVars,
                   ctorVars, fnVars>>

(***************************************************************************)
(* Specifications.                                                         *)
(***************************************************************************)
\* ingest_repository, from its call to its return or its exception.
Next ==
    \/ ParseUrl
    \/ RepoLookup
    \/ TreeLookup
    \/ SubmitFiles
    \/ \E f \in FileIds : StartTask(f)
    \/ \E f \in FileIds : FinishTask(f)
    \/ \E f \in FileIds : CollectResult(f)
    \/ FinishProcessing
    \/ EmbedBatch
    \/ EmbedReturn
    \/ StoreInsert
    \/ StoreFlush
    \/ StoreReturn

Spec == Init /\ [][Next]_vars

\* The same run when a thread that can take a step takes it in the end: the
\* workers of the pool, the calls they make and the collecting loop do not
\* hang.
FairSpec ==
    /\ Spec
    /\ WF_vars(\E f \in FileIds : StartTask(f))
    /\ WF_vars(\E f \in FileIds : FinishTask(f))
    /\ WF_vars(\E f \in FileIds : CollectResult(f))

\* A record list of n chunks of one file, as a caller of the batch methods may
\* hold it.
DirectRecords(n) ==
    [k \in 1..n |->
        [file_path |-> 1,
         chunk_index |-> k - 1,
         document |-> [src |-> 1, pos |-> k - 1, slen |-> MinChunkLen + (k % 3)],
         branch |-> "main"]]

\* generate_embeddings_batch followed by store_chunks_batch on any list of 0 to
\* MaxDocs records: the two methods called as ingest_repository calls them,
\* without the guard that keeps an empty list away from them.
InitBatch ==
    /\ pc = "GeneratingEmbeddings"
    /\ outcome = "none"
    /\ error = "none"
    /\ url_ok = TRUE
    /\ branch = "main"
    /\ max_workers = 1
    /\ repo_exists = TRUE
    /\ repo_branches = {"main"}
    /\ fetch_branch = "main"
    /\ fetch_pc = "returned"
    /\ http_log = <<>>
    /\ fallbacks = 0
    /\ files = <<>>
    /\ future = <<>>
    /\ result = <<>>
    /\ \E n \in 0..MaxDocs : all_chunk_metadata = DirectRecords(n)
    /\ emb_i = 0
    /\ all_embeddings = <<>>
    /\ encode_calls = <<>>
    /\ store_i = 0
    /\ store_pc = "insert"
    /\ inserted = <<>>
    /\ persisted = <<>>
    /\ insert_calls = <<>>
    /\ flush_calls = 0
    /\ stats = [files_processed |-> 0, chunks_generated |-> 0]
    /\ Constructed
    /\ FnIdle

NextBatch ==
    \/ EmbedBatch
    \/ EmbedReturn
    \/ StoreInsert
    \/ StoreFlush
    \/ StoreReturn

SpecBatch == InitBatch /\ [][NextBatch]_vars

\* ingest_repository has not been called.
PipelineIdle ==
    /\ pc = "NotCalled"
    /\ outcome = "none"
    /\ error = "none"
    /\ url_ok = TRUE
    /\ branch = "main"
    /\ max_workers = 1
    /\ repo_exists = TRUE
    /\ repo_branches = {"main"}
    /\ fetch_branch = "main"
    /\ fetch_pc = "idle"
    /\ http_log = <<>>
    /\ fallbacks = 0
    /\ files = <<>>
    /\ future = <<>>
    /\ result = <<>>
    /\ all_chunk_metadata = <<>>
    /\ emb_i = 0
    /\ all_embeddings = <<>>
    /\ encode_calls = <<>>
    /\ store_i = 0
    /\ store_pc = "insert"
    /\ inserted = <<>>
    /\ persisted = <<>>
    /\ insert_calls = <<>>
    /\ flush_calls = 0
    /\ stats = [files_processed |-> 0, chunks_generated |-> 0]

\* ingest_repository is a method: it can be called on a constructed object
\* only.
CallIngest ==
    /\ init_pc = "ready"
    /\ pc = "NotCalled"
    /\ pc' = "Parse"
    /\ UNCHANGED <<outcome, error, inputVars, fetchVars, poolVars, embedVars,
                   storeVars, stats, ctorVars, fnVars>>

\* GitHubDirectIngester(...) against a Milvus that has the collection or not.
InitCtor ==
    /\ PipelineIdle
    /\ FnIdle
    /\ init_pc = "connect"
    /\ attempt = 0
    /\ retry_delay = InitialRetryDelay
    /\ scalar_i = 0
    /\ init_calls = <<>>
    /\ coll_exists \in BOOLEAN
    /\ coll_indexes \in (IF coll_exists THEN {{}, {"embedding"}} ELSE {{}})
    /\ coll_loaded = FALSE
    /\ constructions = <<>>

NextCtor ==
    \/ ConnectAttempt
    \/ SampleEmbedding
    \/ HasCollection
    \/ ReuseCollection
    \/ CreateAttempt
    \/ CreateVectorIndex
    \/ CreateScalarIndex
    \/ LoadCollection
    \/ Construct
    \/ CallIngest

SpecCtor == InitCtor /\ [][NextCtor]_vars


(***************************************************************************)
(* Properties.                                                             *)
(***************************************************************************)
\* The records of the file at `path` in a record list, in the list's order.
RecordsOf(agg, path) == SelectSeq(agg, LAMBDA r : r.file_path = path)

Terminated == pc \in {"Done", "Failed"}

\* The tree was resolved and the with block of the executor has been left.
ProcessingOver == fetch_pc = "returned" /\ pc \notin {"ResolvingTree", "ProcessingFiles"}

\* The part of C1 about the aggregate list and the sibling tasks: a collected
\* file contributes exactly its records when its task returned and nothing when
\* it raised, no other record is in the list, and once the processing stage is
\* over every submitted task has run to its end and been collected.
FailureIsolation ==
    /\ \A f \in 1..Len(future) :
          RecordsOf(all_chunk_metadata, files[f].path) =
             IF future[f] = "collected" /\ ~result[f].raised
             THEN result[f].records
             ELSE <<>>
    /\ \A k \in 1..Len(all_chunk_metadata) :
          \E f \in 1..Len(future) : all_chunk_metadata[k].file_path = files[f].path
    /\ ProcessingOver =>
          /\ Len(future) = Len(files)
          /\ \A f \in FileIds : future[f] = "collected"

C2_ChunkIndexContiguous ==
    \A f \in 1..Len(result) :
        \A j \in 1..Len(result[f].records) :
            result[f].records[j].chunk_index = j - 1

\* The stages in their order; Failed is reachable from every stage, and Done
\* from processing (no chunk) and from storing.
StageSteps ==
    {<<"Parse", "ResolvingTree">>, <<"ResolvingTree", "ProcessingFiles">>,
     <<"ProcessingFiles", "GeneratingEmbeddings">>, <<"ProcessingFiles", "Done">>,
     <<"GeneratingEmbeddings", "Storing">>, <<"Storing", "Done">>}
        \cup {<<st, "Failed">> :
                st \in {"Parse", "ResolvingTree", "ProcessingFiles",
                        "GeneratingEmbeddings", "Storing"}}

EmbeddingsComplete ==
    /\ emb_i >= Len(all_chunk_metadata)
    /\ Len(all_embeddings) = Len(all_chunk_metadata)

StagesMaterialized ==
    /\ Len(future) > 0 => fetch_pc = "returned"
    /\ pc = "ProcessingFiles" => fetch_pc = "returned"
    /\ encode_calls # <<>> =>
          /\ fetch_pc = "returned"
          /\ Len(future) = Len(files)
          /\ \A f \in FileIds : future[f] = "collected"
    /\ insert_calls # <<>> => encode_calls # <<>> /\ EmbeddingsComplete
    /\ pc = "GeneratingEmbeddings" => insert_calls = <<>> /\ PoolDrained
    /\ pc = "Storing" => EmbeddingsComplete

\* C3: the stages of a run occur in the order tree resolution, file
\* processing, embedding generation, storage, each complete before the next
\* starts: no task is submitted before the tree is resolved, no embedding call
\* is made while a task is pending or running, and no insert is made before
\* every embedding batch has returned.
C3_StageOrder ==
    /\ []StagesMaterialized
    /\ [][pc' # pc => <<pc, pc'>> \in StageSteps]_vars

\* A run in the storage stage, with two files processed and their embeddings
\* made in more than one batch.
C3_Witness ==
    /\ pc = "Storing"
    /\ insert_calls # <<>>
    /\ Len(files) >= 2
    /\ Len(encode_calls) >= 2

\* C4: when the processing stage produces no record, the run returns
\* success:false without raising and calls neither the embedding function nor
\* insert nor flush; success:true is returned only with at least one record.
C4_NoChunksNoSuccess ==
    /\ (ProcessingOver /\ all_chunk_metadata = <<>>) =>
          /\ pc = "Done"
          /\ outcome = "success_false"
          /\ error = "none"
          /\ encode_calls = <<>>
          /\ insert_calls = <<>>
          /\ flush_calls = 0
    /\ outcome = "success_true" => all_chunk_metadata # <<>>

\* A run that ended with success:false because every task raised.
C4_Witness ==
    /\ pc = "Done"
    /\ outcome = "success_false"
    /\ Len(files) >= 1
    /\ \A f \in FileIds : result[f].raised


CeilDiv(n, d) == (n + d - 1) \div d

\* Calls j = 1, 2, ... of a batched loop over n items: call j starts at item
\* (j-1)*size and holds the next size items, or those that are left.
ConsecutiveBatches(calls, n, size) ==
    \A j \in 1..Len(calls) :
        /\ calls[j][1] = (j - 1) * size
        /\ calls[j][2] = Min(size, n - (j - 1) * size)
        /\ calls[j][2] \in 1..size

\* Row k of the collection is record k of the input with its own fields.
RowsArePrefix(rows, meta) ==
    /\ Len(rows) <= Len(meta)
    /\ \A k \in 1..Len(rows) :
          /\ rows[k].file_path = meta[k].file_path
          /\ rows[k].chunk_index = meta[k].chunk_index
          /\ rows[k].document = meta[k].document

\* C5: store_chunks_batch writes the records in input order in consecutive
\* batches of at most 100 and flushes after every insert; when the insert or
\* the flush of batch j fails the error leaves the run, no later batch is
\* attempted and the persisted rows are the batches flushed before j, a prefix
\* of the input.
C5_BatchedWrite ==
    /\ ConsecutiveBatches(insert_calls, Len(all_chunk_metadata), StoreBatchSize)
    /\ RowsArePrefix(persisted \o inserted, all_chunk_metadata)
    /\ Len(persisted) = Min(flush_calls * StoreBatchSize, Len(all_chunk_metadata))
    /\ flush_calls \in {Len(insert_calls), Len(insert_calls) - 1}
    /\ (pc \in {"Storing", "Done"} /\ store_pc = "insert") =>
          flush_calls = Len(insert_calls)
    /\ outcome = "success_true" => Len(persisted) = Len(all_chunk_metadata)
    /\ error = "StorageError" =>
          /\ pc = "Failed"
          /\ outcome = "raised"
          /\ flush_calls = Len(insert_calls) - 1
          /\ Len(persisted) = (Len(insert_calls) - 1) * StoreBatchSize
          /\ ~ENABLED StoreInsert
          /\ ~ENABLED StoreFlush

\* The flush of the second batch failed: the first batch is persisted, the
\* second is not.
C5_Witness ==
    /\ error = "StorageError"
    /\ Len(insert_calls) = 2
    /\ inserted # <<>>
    /\ Len(persisted) = StoreBatchSize

\* C6: when the embedding function fails on a batch the run is aborted with
\* that error: no further embedding batch is requested, and nothing is
\* inserted, flushed or persisted.
C6_EmbeddingFailureFatal ==
    error = "EmbeddingError" =>
        /\ pc = "Failed"
        /\ outcome = "raised"
        /\ encode_calls # <<>>
        /\ emb_i = (Len(encode_calls) - 1) * EmbedBatchSize
        /\ ~ENABLED EmbedBatch
        /\ insert_calls = <<>>
        /\ flush_calls = 0
        /\ inserted = <<>>
        /\ persisted = <<>>
        /\ ~ENABLED StoreInsert

\* The second embedding batch failed after the first returned.
C6_Witness ==
    /\ error = "EmbeddingError"
    /\ Len(encode_calls) = 2
    /\ Len(all_embeddings) = EmbedBatchSize

\* generate_embeddings_batch has returned.
EmbedReturned == pc # "GeneratingEmbeddings" /\ error # "EmbeddingError"

\* C7: generate_embeddings_batch calls the embedding function once per
\* consecutive batch of at most 64 documents, ceil(n/64) times for n documents
\* and not at all for none, and returns n vectors, the i-th one the embedding
\* of the i-th document.
C7_EmbeddingBatches ==
    /\ ConsecutiveBatches(encode_calls, Len(all_chunk_metadata), EmbedBatchSize)
    /\ Len(all_embeddings) <= Len(all_chunk_metadata)
    /\ \A k \in 1..Len(all_embeddings) :
          all_embeddings[k] = Embed(all_chunk_metadata[k].document)
    /\ EmbedReturned =>
          /\ Len(encode_calls) = CeilDiv(Len(all_chunk_metadata), EmbedBatchSize)
          /\ Len(all_embeddings) = Len(all_chunk_metadata)

\* The call returned for two full batches and one document more.
C7_Witness ==
    /\ EmbedReturned
    /\ Len(all_chunk_metadata) = 2 * EmbedBatchSize + 1
    /\ Len(encode_calls) = 3
    /\ Len(all_embeddings) = Len(all_chunk_metadata)

NoFaultSeen == \A k \in 1..Len(http_log) : http_log[k].status \notin FaultStatuses

\* fetch_repository_tree has returned or raised.
ResolutionEnded == fetch_pc = "returned" \/ (pc = "Failed" /\ http_log # <<>>)

\* C8: called with 'main' on a repository that exists under 'master' only,
\* fetch_repository_tree falls back to 'master' and returns that branch's
\* eligible files instead of failing.
C8_FallbackToMaster ==
    (/\ branch = "main"
     /\ repo_exists
     /\ repo_branches = {"master"}
     /\ NoFaultSeen
     /\ ResolutionEnded)
        => /\ fetch_pc = "returned"
           /\ fetch_branch = "master"
           /\ \A f \in FileIds : files[f].url_branch = "master"

RepoLookups == Cardinality({k \in 1..Len(http_log) : http_log[k].kind = "repo"})

\* C9: the fallback happens at most once per resolution and only when the
\* requested branch is 'main'; not found for another branch, or for 'master'
\* after a fallback, fails at once; a resolution sends at most two repository
\* lookups and ends (every step of it sends a request, of which there are at
\* most three, and it is never stuck).
C9_FallbackOnce ==
    /\ fallbacks <= 1
    /\ RepoLookups <= 2
    /\ Len(http_log) <= 3
    /\ fallbacks = 1 =>
          /\ branch = "main"
          /\ fetch_branch = "master"
          /\ http_log[1] = Request("repo", "main", "404")
    /\ fallbacks = 0 => fetch_branch = branch
    /\ \A k \in 1..Len(http_log) :
          (/\ http_log[k].kind = "repo"
           /\ http_log[k].status = "404"
           /\ http_log[k].branch # "main")
             => /\ k = Len(http_log)
                /\ pc = "Failed"
                /\ outcome = "raised"
                /\ error = "ValueError_NotFound"
    /\ pc = "ResolvingTree" => ENABLED (RepoLookup \/ TreeLookup \/ SubmitFiles)
    /\ pc = "Failed" => ~ENABLED RepoLookup

\* 'main' was not found, the fallback to 'master' was not found either, and
\* the resolution failed after two lookups.
C9_Witness ==
    /\ fallbacks = 1
    /\ RepoLookups = 2
    /\ pc = "Failed"
    /\ error = "ValueError_NotFound"

\* C10: a failure of the repository lookup or of the tree fetch other than
\* not found triggers no fallback and leaves ingest_repository as an error:
\* the run ends Failed with no task submitted, no embedding call and no write.
C10_OtherFailuresFatal ==
    \A k \in 1..Len(http_log) :
        http_log[k].status \in FaultStatuses =>
            /\ k = Len(http_log)
            /\ pc = "Failed"
            /\ outcome = "raised"
            /\ error \in {"ConnectionError", "HTTPError"}
            /\ fetch_branch = http_log[k].branch
            /\ fallbacks = Cardinality({j \in 1..(k - 1) : http_log[j].status = "404"})
            /\ files = <<>>
            /\ future = <<>>
            /\ encode_calls = <<>>
            /\ insert_calls = <<>>
            /\ flush_calls = 0
            /\ persisted = <<>>
            /\ ~ENABLED Next

\* The tree fetch was refused (403) after the repository lookup succeeded.
C10_Witness ==
    /\ pc = "Failed"
    /\ Len(http_log) = 2
    /\ http_log[2] = Request("tree", fetch_branch, "403")

(***************************************************************************)
(* Properties of the constructor.                                          *)
(***************************************************************************)
\* The positions of the calls of one operation in the log of the running
\* __init__.
CallsOf(op) == {k \in 1..Len(init_calls) : init_calls[k].op = op}

\* The number of calls of op made before position k.
Earlier(op, k) == Cardinality({j \in CallsOf(op) : j < k})

SetupOps == {"encode", "has_collection", "create", "drop", "create_index", "load"}

\* C11: when the collection does not exist its creation is attempted at most
\* 3 times, in order; no attempt follows a successful one; a failed first or
\* second attempt is followed by the 3 second cool-down and the clean-up (a
\* drop when has_collection finds a partial collection), and the next attempt
\* follows whether that drop succeeded or raised; a failed third attempt is
\* the last call of the setup, which fails without any create_index or load.
C11_CreationRetries ==
    /\ Cardinality(CallsOf("create")) <= 3
    /\ \A k \in CallsOf("create") :
         LET c == init_calls[k]
             n == Len(init_calls)
         IN  /\ c.arg = Earlier("create", k)
             /\ c.ok => \A j \in CallsOf("create") : j <= k
             /\ (~c.ok /\ c.arg < 2) =>
                  /\ k + 2 <= n
                  /\ init_calls[k + 1] = Call("sleep", 3, TRUE)
                  /\ init_calls[k + 2].op = "has_collection"
                  /\ LET found == init_calls[k + 2].ok /\ init_calls[k + 2].arg
                         next == IF found THEN k + 4 ELSE k + 3
                     IN  /\ found => (k + 3 <= n /\ init_calls[k + 3].op = "drop")
                         /\ IF next <= n
                            THEN init_calls[next].op = "create"
                            ELSE init_pc = "create" /\ attempt = c.arg + 1
             /\ (~c.ok /\ c.arg >= 2) =>
                  /\ k = n
                  /\ init_pc = "failed"
                  /\ CallsOf("create_index") = {}
                  /\ CallsOf("load") = {}

\* Three creations failed, and a drop in between raised.
C11_Witness ==
    /\ init_pc = "failed"
    /\ \E k \in CallsOf("create") : init_calls[k] = Call("create", 2, FALSE)
    /\ \E k \in CallsOf("drop") : ~init_calls[k].ok

\* The running setup found the collection at line 220.
Reusing ==
    /\ CallsOf("has_collection") # {}
    /\ LET first == CHOOSE k \in CallsOf("has_collection") : Earlier("has_collection", k) = 0
       IN  init_calls[first].ok /\ init_calls[first].arg

\* The __init__ before the running one returned.
AfterSuccessfulSetup ==
    /\ constructions # <<>>
    /\ constructions[Len(constructions)] = "ready"

\* The calls that create or alter a collection.
AlteringOps == {"create", "drop", "create_index"}

\* C12: a setup that finds the collection makes no create, drop or
\* create_index call: after has_collection it makes one load call and nothing
\* else, and the collection and its indexes stay what they were; a setup that
\* runs after a successful setup finds the collection and is such a setup.
C12_ReuseExisting ==
    /\ [](Reusing =>
            /\ \A k \in 1..Len(init_calls) : init_calls[k].op \notin AlteringOps
            /\ Cardinality(CallsOf("load")) <= 1
            /\ init_pc \in {"reuse", "ready", "failed"}
            /\ init_pc = "reuse" => CallsOf("load") = {}
            /\ init_pc = "ready" =>
                 init_calls[Len(init_calls)] = Call("load", "existing", TRUE))
    /\ [](AfterSuccessfulSetup =>
            /\ coll_exists
            /\ \A k \in 1..Len(init_calls) : init_calls[k].op \notin AlteringOps
            /\ init_pc \notin {"create", "index_vector", "index_scalar", "load"})
    /\ [][((Reusing /\ Reusing') \/ (AfterSuccessfulSetup /\ AfterSuccessfulSetup'))
            => (coll_exists' = coll_exists /\ coll_indexes' = coll_indexes)]_vars

\* A second setup that followed a successful one has returned.
C12_Witness ==
    /\ AfterSuccessfulSetup
    /\ Reusing
    /\ init_pc = "ready"

\* The position of the creation that returned, in the log of the running
\* setup; 0 when there is none.
CreatedAt ==
    LET done == {k \in CallsOf("create") : init_calls[k].ok}
    IN  IF done = {} THEN 0 ELSE CHOOSE k \in done : TRUE

FailedIndexes == {k \in CallsOf("create_index") : ~init_calls[k].ok}

\* C13: once the creation has returned, whatever index creations fail, the
\* collection is not dropped and still exists, the setup goes on to load(), and
\* it ends by raising only when that load() raises: when load() returns the
\* setup returns with the collection loaded.
C13_IndexFailuresTolerated ==
    CreatedAt # 0 =>
        /\ coll_exists
        /\ \A k \in CallsOf("drop") : k < CreatedAt
        /\ init_pc \in {"index_vector", "index_scalar", "load", "ready", "failed"}
        /\ init_pc \in {"ready", "failed"} =>
             LET last == init_calls[Len(init_calls)]
             IN  /\ last.op = "load"
                 /\ \A k \in CallsOf("create_index") : k < Len(init_calls)
                 /\ init_pc = "ready" <=> last.ok
                 /\ last.ok => coll_loaded

\* A setup returned although the index of some scalar field failed and that of
\* another was built.
C13_Witness ==
    /\ CreatedAt # 0
    /\ init_pc = "ready"
    /\ \E k \in FailedIndexes : init_calls[k].arg = "language"
    /\ \E k \in CallsOf("create_index") : init_calls[k] = Call("create_index", "has_code", TRUE)

\* C14: _connect_to_milvus makes at most 3 connection attempts, in order, and
\* none after one that succeeded; a failed first attempt is followed by a
\* wait of 2 seconds and a failed second one by a wait of 4 seconds, each
\* followed by the next attempt; a failed third attempt is followed by no
\* wait: the exception leaves __init__, no call of the collection setup is
\* made, no object exists on which ingest_repository could be called and no
\* row is written.
C14_ConnectRetries ==
    /\ Cardinality(CallsOf("connect")) <= 3
    /\ \A k \in CallsOf("connect") :
         LET c == init_calls[k]
             n == Len(init_calls)
         IN  /\ c.arg = Earlier("connect", k)
             /\ c.ok => \A j \in CallsOf("connect") : j <= k
             /\ (~c.ok /\ c.arg < 2) =>
                  /\ k + 1 <= n
                  /\ init_calls[k + 1] = Call("sleep", IF c.arg = 0 THEN 2 ELSE 4, TRUE)
                  /\ IF k + 2 <= n
                     THEN init_calls[k + 2].op = "connect"
                     ELSE init_pc = "connect"
             /\ (~c.ok /\ c.arg >= 2) =>
                  /\ k = n
                  /\ init_pc = "failed"
                  /\ \A j \in 1..n : init_calls[j].op \notin SetupOps
    /\ \A k \in 1..Len(init_calls) :
         init_calls[k].op \in SetupOps =>
             \E j \in CallsOf("connect") : j < k /\ init_calls[j].ok
    /\ init_pc # "ready" =>
         /\ pc = "NotCalled"
         /\ insert_calls = <<>>
         /\ inserted = <<>>
         /\ persisted = <<>>

\* Three connection attempts failed.
C14_Witness ==
    /\ init_pc = "failed"
    /\ \E k \in CallsOf("connect") : init_calls[k] = Call("connect", 2, FALSE)

(***************************************************************************)
(* store_chunks_batch: the string values handed to collection.insert.  A   *)
(* string is the text it was cut from, the offset of its first character   *)
(* in that text, and its length in characters.                             *)
(***************************************************************************)
\* The VARCHAR fields of the schema with their max_length.
max_length ==
    [id |-> 100, document |-> 65535, file_name |-> 500, file_path |-> 1000,
     file_type |-> 50, source_link |-> 2000, raw_url |-> 2000, blob_url |-> 2000,
     chunk_method |-> 50, image_links |-> 5000, attachment_links |-> 5000,
     language |-> 50, external_links |-> 3000, function_names |-> 2000,
     class_names |-> 1000, import_statements |-> 2000, keywords |-> 2000,
     repo_name |-> 200, repo_owner |-> 100, branch |-> 100, commit_sha |-> 100,
     created_at |-> 50, embedding_model |-> 100]

StringFields == DOMAIN max_length

\* The stop index of the slice insert_data takes of each field; the id is
\* handed over as it is.
NoSlice == 0 - 1
slice_stop ==
    [id |-> NoSlice, document |-> 65535, file_name |-> 500, file_path |-> 1000,
     file_type |-> 50, source_link |-> 2000, raw_url |-> 2000, blob_url |-> 2000,
     chunk_method |-> 50, image_links |-> 5000, attachment_links |-> 5000,
     language |-> 50, external_links |-> 3000, function_names |-> 2000,
     class_names |-> 1000, import_statements |-> 2000, keywords |-> 2000,
     repo_name |-> 200, repo_owner |-> 100, branch |-> 100, commit_sha |-> 100,
     created_at |-> 50, embedding_model |-> 100]

\* len(str(uuid.uuid4()))
UuidLen == 36

\* Bound: how far from its max_length the length of a field value is taken.
MaxExcess == 2

Text(name, n) == [text |-> name, from |-> 0, len |-> n]

\* Mutant: the slice is not taken.
SlicedMut(s, stop) == s

\* s[:stop]
Sliced(s, stop) == IF stop = NoSlice THEN s ELSE [s EXCEPT !.len = Min(s.len, stop)]

\* The lengths a field value is given: empty, around its max_length, twice it.
FieldLengths(f) ==
    {0, 2 * max_length[f]}
    \cup {max_length[f] + d : d \in (0 - MaxExcess)..MaxExcess}

\* The string fields of a record process_file builds: the id is a UUID, one
\* field f has n characters, the others one character or one more than their
\* max_length.
RecordStrings(f, n, long) ==
    [g \in StringFields |->
        IF g = "id" THEN Text(g, UuidLen)
        ELSE IF g = f THEN Text(g, n)
        ELSE Text(g, IF long THEN max_length[g] + 1 ELSE 1)]

\* The string columns of insert_data for one record.
InsertStrings(item) == [g \in StringFields |-> Sliced(item[g], slice_stop[g])]

\* Milvus rejects an insert that holds a VARCHAR value longer than the
\* max_length of its field.
SchemaAccepts(row) == \A g \in StringFields : row[g].len <= max_length[g]

\* insert_data = [...]
BuildInsertData ==
    /\ fn_pc = "call"
    /\ fn_out' = InsertStrings(fn_in)
    /\ fn_pc' = "built"
    /\ UNCHANGED <<fn_in, pipelineVars, ctorVars>>

\* self.collection.insert(insert_data)
InsertRow ==
    /\ fn_pc = "built"
    /\ fn_pc' = IF SchemaAccepts(fn_out) THEN "inserted" ELSE "rejected"
    /\ UNCHANGED <<fn_in, fn_out, pipelineVars, ctorVars>>

InitInsert ==
    /\ PipelineIdle
    /\ Constructed
    /\ fn_pc = "call"
    /\ fn_out = <<>>
    /\ \E f \in StringFields \ {"id"}, long \in BOOLEAN :
         \E n \in FieldLengths(f) : fn_in = RecordStrings(f, n, long)

NextInsert ==
    \/ BuildInsertData
    \/ InsertRow

SpecInsert == InitInsert /\ [][NextInsert]_vars

\* C15: every string value handed to insert has at most max_length characters
\* of its field, the id included: a value within the limit is handed over
\* unchanged, a longer one is replaced by its first max_length characters, and
\* the insert is not rejected for the length of a value.
C15_ValuesFitSchema ==
    fn_pc # "call" =>
        /\ fn_pc # "rejected"
        /\ \A g \in StringFields :
             LET L == max_length[g]
             IN  /\ fn_out[g].len <= L
                 /\ fn_out[g].text = fn_in[g].text
                 /\ fn_out[g].from = fn_in[g].from
                 /\ fn_out[g].len = IF fn_in[g].len > L THEN L ELSE fn_in[g].len

\* A record whose document is longer than 65535 characters was inserted.
C15_Witness ==
    /\ fn_pc = "inserted"
    /\ fn_in["document"].len > 65535
    /\ fn_out["document"].len = 65535

(***************************************************************************)
(* _calculate_quality_scores.  The content is given by what the method     *)
(* measures of it; a score is a fraction num/den.                          *)
(***************************************************************************)
\* The caps of the five information indicators.
max_values == <<10, 5, 5, 20, 10>>

\* Bound: the number of word tokens of a content.
MaxWords == 3
\* Bound: how far above its cap an information indicator is taken.
MaxOver == 1

RECURSIVE Sum(_)
Sum(s) == IF s = <<>> THEN 0 ELSE s[1] + Sum(Tail(s))

\* quality_indicators; a true indicator counts 1 in the sum.
quality_indicators(c) ==
    <<c.long, c.paragraphs, c.headers, c.has_documentation, c.functions > 0,
      c.sentences>>

Ones(flags) == [k \in 1..Len(flags) |-> IF flags[k] THEN 1 ELSE 0]

\* content_quality_score = sum(quality_indicators) / len(quality_indicators)
content_quality_score(c) ==
    [num |-> Sum(Ones(quality_indicators(c))), den |-> Len(quality_indicators(c))]

\* semantic_density = (unique_words / total_words) if total_words > 0 else 0
semantic_density(c) ==
    IF c.total_words > 0
    THEN [num |-> c.unique_words, den |-> c.total_words]
    ELSE [num |-> 0, den |-> 1]

\* Mutant: the density is doubled and not capped.
ScaledMut(q) == [num |-> q.num * 2, den |-> q.den]

\* min(semantic_density * 2, 1.0)
Scaled(q) ==
    IF q.num * 2 < q.den THEN [num |-> q.num * 2, den |-> q.den]
    ELSE [num |-> 1, den |-> 1]

\* info_indicators
info_indicators(c) == <<c.functions, c.classes, c.urls, c.camel_terms, c.fences>>

\* information_value_score = actual_info_value / max_info_value
information_value_score(c) ==
    [num |-> Sum([k \in 1..Len(max_values) |->
                    Min(info_indicators(c)[k], max_values[k])]),
     den |-> Sum(max_values)]

\* The dictionary _calculate_quality_scores returns.
calculate_quality_scores(c) ==
    [content_quality_score |-> content_quality_score(c),
     semantic_density_score |-> Scaled(semantic_density(c)),
     information_value_score |-> information_value_score(c)]

\* The values an information indicator is given: none, its cap, above its cap.
Counts(k) == {0, max_values[k], max_values[k] + MaxOver}

\* What the method measures of a content and of its code elements.  A word of
\* three characters or more is a word, so there are no more different ones
\* than there are words.
Measures ==
    {c \in [long : BOOLEAN, paragraphs : BOOLEAN, headers : BOOLEAN,
            has_documentation : BOOLEAN, sentences : BOOLEAN,
            functions : Counts(1), classes : Counts(2), urls : Counts(3),
            camel_terms : Counts(4), fences : Counts(5),
            unique_words : 0..MaxWords, total_words : 0..MaxWords] :
        c.unique_words <= c.total_words}

CalculateScores ==
    /\ fn_pc = "call"
    /\ fn_out' = calculate_quality_scores(fn_in)
    /\ fn_pc' = "returned"
    /\ UNCHANGED <<fn_in, pipelineVars, ctorVars>>

InitScores ==
    /\ PipelineIdle
    /\ Constructed
    /\ fn_pc = "call"
    /\ fn_out = <<>>
    /\ fn_in \in Measures

NextScores == CalculateScores

SpecScores == InitScores /\ [][NextScores]_vars

\* 0 <= num/den <= 1
InUnitInterval(q) == q.den > 0 /\ 0 <= q.num /\ q.num <= q.den

\* C16: each of the three scores _calculate_quality_scores returns lies in
\* [0, 1], whatever the content measures: no word at all, every word
\* different, indicators above their caps.
C16_ScoresInUnitInterval ==
    fn_pc = "returned" =>
        /\ InUnitInterval(fn_out.content_quality_score)
        /\ InUnitInterval(fn_out.semantic_density_score)
        /\ InUnitInterval(fn_out.information_value_score)

\* Scores of a content whose words are all different and whose indicators
\* are all above their caps.
C16_Witness ==
    /\ fn_pc = "returned"
    /\ fn_in.total_words > 0
    /\ fn_in.unique_words = fn_in.total_words
    /\ \A k \in 1..Len(max_values) : info_indicators(fn_in)[k] > max_values[k]
    /\ fn_out.semantic_density_score = [num |-> 1, den |-> 1]
    /\ fn_out.information_value_score.num = fn_out.information_value_score.den

(***************************************************************************)
(* process_file, step by step, on the files of a list one after the other. *)
(***************************************************************************)
\* Bound: number of files handed to process_file.
MaxFetched == 2
\* Bound: how far above the file threshold the length of a content is taken.
MaxSurplus == 1

\* What can happen to the GET of a file: requests.get or raise_for_status
\* raises, the body cannot be decoded, or the body is decoded to a text.
FetchFaults == {"http_error", "undecodable"}

\* The text lengths, as len(content.strip()), around the two thresholds.
BodyLens ==
    {0, MinChunkLen - 1, MinChunkLen, MinFileLen - 1, MinFileLen,
     MinFileLen + MaxSurplus}

\* The answers to the GET of download_url; an error answer has a body too.
Responses ==
    {[kind |-> k, trimmed |-> MinFileLen] : k \in FetchFaults}
    \cup {[kind |-> "body", trimmed |-> n] : n \in BodyLens}

\* Mutant: the body is returned whatever happened.
fetch_file_contentMut(resp) == resp.trimmed

\* fetch_file_content: the decoded text, or None after any exception.
fetch_file_content(resp) == IF resp.kind = "body" THEN resp.trimmed ELSE NoContent

\* file_info of the i-th file of the list.
FileInfo(i) == [path |-> i, extension |-> ".md", url_branch |-> "main"]

\* The process_file call that is running or was the last to run.
Current == fn_out[Len(fn_out)]

Traced(name) == [Current EXCEPT !.trace = Append(@, name)]

\* process_file is called on the next file: line 684.
FetchContent ==
    /\ fn_pc \in {"call", "returned"}
    /\ Len(fn_out) < Len(fn_in)
    /\ fn_out' = Append(fn_out,
                    [content |-> fetch_file_content(fn_in[Len(fn_out) + 1]),
                     trace |-> <<>>, chunks |-> <<>>, raised |-> FALSE,
                     records |-> <<>>])
    /\ fn_pc' = "fetched"
    /\ UNCHANGED <<fn_in, pipelineVars, ctorVars>>

\* Lines 685-687.
CheckContent ==
    /\ fn_pc = "fetched"
    /\ fn_pc' = IF SkipFile(Current.content) THEN "returned" ELSE "extract"
    /\ UNCHANGED <<fn_in, fn_out, pipelineVars, ctorVars>>

\* Lines 690-691.
ExtractLinks ==
    /\ fn_pc = "extract"
    /\ fn_out' = [fn_out EXCEPT ![Len(fn_out)] = Traced("extract_images_and_links")]
    /\ fn_pc' = "analyze"
    /\ UNCHANGED <<fn_in, pipelineVars, ctorVars>>

\* Line 694; an exception leaves process_file.
AnalyzeContent ==
    /\ fn_pc = "analyze"
    /\ \E ok \in BOOLEAN :
         /\ fn_out' = [fn_out EXCEPT ![Len(fn_out)] =
                          [Traced("analyze_content") EXCEPT !.raised = ~ok]]
         /\ fn_pc' = IF ok THEN "chunk" ELSE "returned"
    /\ UNCHANGED <<fn_in, pipelineVars, ctorVars>>

\* Line 697; an exception leaves process_file.
ChunkContent ==
    /\ fn_pc = "chunk"
    /\ \E ok \in BOOLEAN :
         IF ok
         THEN \E chunks \in ChunkerOutputs :
                /\ fn_out' = [fn_out EXCEPT ![Len(fn_out)] =
                                [Traced("semantic_chunk_content") EXCEPT !.chunks = chunks]]
                /\ fn_pc' = "records"
         ELSE /\ fn_out' = [fn_out EXCEPT ![Len(fn_out)] =
                                [Traced("semantic_chunk_content") EXCEPT !.raised = TRUE]]
              /\ fn_pc' = "returned"
    /\ UNCHANGED <<fn_in, pipelineVars, ctorVars>>

\* Lines 700-768.
BuildChunkRecords ==
    /\ fn_pc = "records"
    /\ fn_out' = [fn_out EXCEPT ![Len(fn_out)].records =
                    BuildRecords(FileInfo(Len(fn_out)), "main", Current.chunks)]
    /\ fn_pc' = "returned"
    /\ UNCHANGED <<fn_in, pipelineVars, ctorVars>>

InitFile ==
    /\ PipelineIdle
    /\ Constructed
    /\ fn_pc = "call"
    /\ fn_out = <<>>
    /\ fn_in \in UNION {[1..n -> Responses] : n \in 1..MaxFetched}

NextFile ==
    \/ FetchContent
    \/ CheckContent
    \/ ExtractLinks
    \/ AnalyzeContent
    \/ ChunkContent
    \/ BuildChunkRecords

SpecFile == InitFile /\ [][NextFile]_vars

\* The process_file calls that have returned or raised.
FinishedCalls == {j \in 1..Len(fn_out) : j < Len(fn_out) \/ fn_pc = "returned"}

AllSteps == <<"extract_images_and_links", "analyze_content", "semantic_chunk_content">>

\* A call that has ended was skipped at lines 685-687 when it made none of
\* the calls that follow them.
Skipped(j) == fn_out[j].trace = <<>>

\* C17, as stated: a file whose content was fetched is skipped exactly when the
\* content has fewer than 30 characters after trimming.
C17_Threshold30 ==
    \A j \in FinishedCalls :
        fn_out[j].content # NoContent => (Skipped(j) <=> fn_out[j].content < 30)

\* C17, amended: a file whose content was fetched is skipped exactly when the
\* content has fewer than 50 characters after trimming; a file with 50 or more
\* goes on to link extraction, then analysis, then chunking, as far as none of
\* them raises.
C17_Threshold50 ==
    /\ \A j \in FinishedCalls :
         fn_out[j].content # NoContent =>
             /\ Skipped(j) <=> fn_out[j].content < 50
             /\ fn_out[j].content >= 50 =>
                  /\ fn_out[j].trace[1] = AllSteps[1]
                  /\ ~fn_out[j].raised => fn_out[j].trace = AllSteps
    /\ fn_pc \in {"extract", "analyze", "chunk", "records"} =>
         /\ Current.content >= 50
         /\ Current.trace = SubSeq(AllSteps, 1, Len(Current.trace))

\* A file of exactly 50 characters was chunked into records.
C17_Witness ==
    /\ fn_pc = "returned"
    /\ Current.content = 50
    /\ Current.trace = AllSteps
    /\ Current.records # <<>>

\* C18: a file with no content or with fewer than 30 characters after
\* trimming yields no record and reaches neither the analyzer nor the chunker
\* (nor the link extraction before them), and no record holds a chunk of
\* fewer than 30 characters after trimming.
C18_NothingFromSmallInputs ==
    \A j \in 1..Len(fn_out) :
        LET t == fn_out[j]
        IN  /\ (t.content = NoContent \/ t.content < 30) =>
                 /\ t.records = <<>>
                 /\ t.trace = <<>>
                 /\ ~t.raised
                 /\ j = Len(fn_out) => fn_pc \in {"fetched", "returned"}
            /\ \A k \in 1..Len(t.records) : t.records[k].document.slen >= 30

\* A file of 29 characters was skipped, and of the two chunks of the next
\* file, of 29 and of 30 characters, only the second became a record.
C18_Witness ==
    /\ Len(fn_out) = 2
    /\ fn_pc = "returned"
    /\ fn_out[1].content = 29
    /\ fn_out[2].chunks = <<29, 30>>
    /\ Len(fn_out[2].records) = 1

\* C19: a file whose GET fails or whose body cannot be decoded gives no
\* content; its process_file call returns the empty list without raising and
\* without calling link extraction, analyzer or chunker, and the files after
\* it are still processed, each as its own content and chunks determine.
C19_FetchFailureSkipsFile ==
    /\ \A j \in 1..Len(fn_out) :
         fn_in[j].kind \in FetchFaults =>
             /\ fn_out[j].content = NoContent
             /\ fn_out[j].trace = <<>>
             /\ fn_out[j].records = <<>>
             /\ ~fn_out[j].raised
             /\ j = Len(fn_out) => fn_pc \in {"fetched", "returned"}
    /\ \A j \in 1..Len(fn_out) :
         fn_in[j].kind = "body" =>
             /\ fn_out[j].content = fn_in[j].trimmed
             /\ (j \in FinishedCalls /\ ~fn_out[j].raised /\ ~Skipped(j)) =>
                  fn_out[j].records = BuildRecords(FileInfo(j), "main", fn_out[j].chunks)
    /\ (fn_pc = "returned" /\ Len(fn_out) < Len(fn_in)) => ENABLED FetchContent

\* The GET of the first file failed and the second file gave a record.
C19_Witness ==
    /\ Len(fn_out) = 2
    /\ fn_pc = "returned"
    /\ fn_in[1].kind = "http_error"
    /\ fn_out[1].records = <<>>
    /\ fn_out[2].records # <<>>

(***************************************************************************)
(* The filter of fetch_repository_tree on any tree answer.                 *)
(***************************************************************************)
\* Bound: number of entries of a tree answer.
MaxTreeLen == 2

\* Entries of every type GitHub lists (file, directory, submodule) with a
\* supported, an unsupported or no suffix, in lower case or with capitals.
TreeEntries ==
    [type : {"blob", "tree", "commit"},
     ext : {".md", ".MD", ".Py", ".png", ".PNG", ""}]

\* Lines 318-342.
ListFiles ==
    /\ fn_pc = "call"
    /\ fn_out' = FilterTree(fn_in, "main")
    /\ fn_pc' = "returned"
    /\ UNCHANGED <<fn_in, pipelineVars, ctorVars>>

InitTree ==
    /\ PipelineIdle
    /\ Constructed
    /\ fn_pc = "call"
    /\ fn_out = <<>>
    /\ fn_in \in UNION {[1..n -> TreeEntries] : n \in 0..MaxTreeLen}

NextTree == ListFiles

SpecTree == InitTree /\ [][NextTree]_vars

\* The suffixes of the supported set and the empty one, written as the tree
\* may spell them.
AcceptedSpellings == {".md", ".MD", ".Py", ""}

\* C20: the list returned holds, in the order of the tree, exactly one
\* descriptor for each blob entry whose suffix in lower case is supported or
\* empty, with that lower-case suffix as its extension, and no descriptor for
\* any other entry.
C20_TreeFilter ==
    fn_pc = "returned" =>
        /\ \A k \in 1..Len(fn_out) :
             /\ fn_out[k].path \in 1..Len(fn_in)
             /\ k > 1 => fn_out[k - 1].path < fn_out[k].path
        /\ \A i \in 1..Len(fn_in) :
             LET hits == {k \in 1..Len(fn_out) : fn_out[k].path = i}
             IN  IF fn_in[i].type = "blob" /\ fn_in[i].ext \in AcceptedSpellings
                 THEN /\ Cardinality(hits) = 1
                      /\ \A k \in hits :
                           /\ fn_out[k].extension \in supported_extensions \cup {""}
                           /\ fn_out[k].extension = Lower(fn_in[i].ext)
                 ELSE hits = {}

\* A directory and a blob with a capital suffix: only the blob is listed.
C20_Witness ==
    /\ fn_pc = "returned"
    /\ Len(fn_in) = 2
    /\ fn_in[1] = [type |-> "tree", ext |-> ""]
    /\ fn_in[2] = [type |-> "blob", ext |-> ".MD"]
    /\ Len(fn_out) = 1
    /\ fn_out[1].path = 2
    /\ fn_out[1].extension = ".md"

(***************************************************************************)
(* Properties of the worker pool.                                          *)
(***************************************************************************)
\* How far a future has come.
Rank(st) ==
    CASE st = "pending" -> 0
      [] st = "running" -> 1
      [] st = "finished" -> 2
      [] st = "collected" -> 3

\* Every task has returned or raised.
AllTasksEnded == \A f \in FileIds : future[f] \in {"finished", "collected"}

\* C21: while the files are processed at most max_workers tasks run at the
\* same time; every file of the resolver's list has one future, which goes
\* from pending to running to finished and never back, so that no file is
\* run twice; and once the files are submitted every task ends, by returning
\* or by raising.
C21_BoundedPool ==
    /\ [](pc = "ProcessingFiles" =>
            /\ Cardinality(Running) <= max_workers
            /\ DOMAIN future = FileIds
            /\ DOMAIN result = FileIds)
    /\ [][(pc = "ProcessingFiles" /\ pc' = "ProcessingFiles") =>
            \A f \in FileIds :
                /\ Rank(future'[f]) \in {Rank(future[f]), Rank(future[f]) + 1}
                /\ files'[f] = files[f]]_vars
    /\ (pc = "ProcessingFiles") ~> (pc = "ProcessingFiles" /\ AllTasksEnded)

\* One worker: a task runs while the next file waits for it.
C21_Witness ==
    /\ pc = "ProcessingFiles"
    /\ max_workers = 1
    /\ Cardinality(Running) = max_workers
    /\ \E f \in FileIds : future[f] = "pending"

\* The files whose future the collecting loop has taken and whose task
\* returned a list.
Gathered == {f \in FileIds : future[f] = "collected" /\ ~result[f].raised}

\* The futures a step moves on.
Moved == {f \in FileIds : future'[f] # future[f]}

\* C22: a step in which a task ends writes the result of that task and nothing
\* else: not the aggregate list, not the result of another task; the aggregate
\* list changes only in a step of the collecting loop, which appends all the
\* records of one finished task behind what the list held; so at every moment
\* the list holds, for each file collected, exactly the records its task
\* returned, in their order, and nothing more.
C22_NoSharedState ==
    /\ [][(pc = "ProcessingFiles" /\ pc' = "ProcessingFiles") =>
            /\ Cardinality(Moved) <= 1
            /\ \A f \in FileIds :
                 result'[f] # result[f] =>
                     /\ Moved = {f}
                     /\ future[f] = "running"
                     /\ all_chunk_metadata' = all_chunk_metadata
                     /\ \A g \in FileIds \ {f} : result'[g] = result[g]
            /\ all_chunk_metadata' # all_chunk_metadata =>
                 \E f \in FileIds :
                     /\ Moved = {f}
                     /\ future[f] = "finished"
                     /\ future'[f] = "collected"
                     /\ result' = result
                     /\ all_chunk_metadata' = all_chunk_metadata \o result[f].records]_vars
    /\ [](pc = "ProcessingFiles" =>
            /\ \A f \in Gathered :
                 RecordsOf(all_chunk_metadata, files[f].path) = result[f].records
            /\ \A k \in 1..Len(all_chunk_metadata) :
                 \E f \in Gathered : files[f].path = all_chunk_metadata[k].file_path)

\* With two workers, the records of two files have been appended to the
\* aggregate list.
C22_Witness ==
    /\ pc = "ProcessingFiles"
    /\ Cardinality(Gathered) = 2
    /\ \A f \in Gathered : result[f].records # <<>>
    /\ max_workers = 2

(***************************************************************************)
(* Properties of the returned statistics and of the stored rows.           *)
(***************************************************************************)
\* C23: on a successful run files_processed is the number of files whose task
\* returned a list, the files whose task raised an exception not counted.
C23_FilesProcessedExcludesFailures ==
    outcome = "success_true" =>
        stats.files_processed = Cardinality({f \in FileIds : ~result[f].raised})

\* Row k of a batch that starts at record i carries the embedding of its own
\* document, which is the document of record i + k.
Aligned(rows, i) ==
    \A k \in 1..Len(rows) :
        /\ rows[k].document = all_chunk_metadata[i + k].document
        /\ rows[k].embedding = Embed(rows[k].document)

\* C24: in the rows handed to every insert call, and so in every row inserted
\* or persisted, the k-th vector is the embedding of the document of the k-th
\* record, for every number of records on either side of the batch sizes 64
\* and 100.
C24_VectorsAligned ==
    /\ (pc = "Storing" /\ store_pc = "insert" /\ store_i < Len(all_chunk_metadata)) =>
          Aligned(InsertData(all_chunk_metadata, all_embeddings, store_i), store_i)
    /\ Aligned(inserted, Len(persisted))
    /\ Aligned(persisted, 0)

\* More records than two embedding batches and one storage batch hold were
\* stored.
C24_Witness ==
    /\ outcome = "success_true"
    /\ Len(encode_calls) > 2
    /\ Len(insert_calls) > 1
    /\ Len(persisted) = Len(all_chunk_metadata)

\* The number of rows handed over by the insert calls.
RowsHandedOver == Sum([j \in 1..Len(insert_calls) |-> insert_calls[j][2]])

\* C25: on a successful run of n records the insert calls take the records
\* 0..99, 100..199, ... in order, each call between 1 and 100 of them, all n
\* together; there are ceil(n/100) insert calls and as many flush calls; row k
\* of the collection is record k, so that no record is missing and none is
\* there twice; and chunks_generated is the number of rows inserted.
C25_InsertedExactlyOnce ==
    outcome = "success_true" =>
        LET n == Len(all_chunk_metadata)
        IN  /\ \A j \in 1..Len(insert_calls) :
                 /\ insert_calls[j][1] = 100 * (j - 1)
                 /\ insert_calls[j][2] \in 1..100
                 /\ insert_calls[j][1] + insert_calls[j][2] =
                      IF j < Len(insert_calls) THEN insert_calls[j + 1][1] ELSE n
            /\ Len(insert_calls) = (n + 99) \div 100
            /\ flush_calls = Len(insert_calls)
            /\ RowsHandedOver = n
            /\ inserted = <<>>
            /\ Len(persisted) = n
            /\ \A k \in 1..n :
                 /\ persisted[k].file_path = all_chunk_metadata[k].file_path
                 /\ persisted[k].chunk_index = all_chunk_metadata[k].chunk_index
                 /\ persisted[k].document = all_chunk_metadata[k].document
            /\ stats.chunks_generated = RowsHandedOver

\* 201 records were stored in three batches, the last of one record.
C25_Witness ==
    /\ outcome = "success_true"
    /\ Len(insert_calls) = 3
    /\ insert_calls[3] = <<200, 1>>
    /\ stats.chunks_generated = 201

\* C26: in the aggregate list, at every moment and whatever the order in
\* which the tasks ended and were collected, two neighbours of the same file
\* have ascending chunk_index, and once the list has gone on to another file
\* it never comes back to the one before: the records of a file are one
\* block, in ascending chunk_index order.
C26_ContiguousBlocks ==
    \A k \in 1..(Len(all_chunk_metadata) - 1) :
        LET r == all_chunk_metadata[k]
            nxt == all_chunk_metadata[k + 1]
        IN  IF r.file_path = nxt.file_path
            THEN r.chunk_index < nxt.chunk_index
            ELSE \A m \in (k + 2)..Len(all_chunk_metadata) :
                    all_chunk_metadata[m].file_path # r.file_path

\* The block of the second file stands before the block of the first, each
\* of two records.
C26_Witness ==
    /\ Len(all_chunk_metadata) = 4
    /\ all_chunk_metadata[1].file_path = 2
    /\ all_chunk_metadata[2].file_path = 2
    /\ all_chunk_metadata[3].file_path = 1
    /\ all_chunk_metadata[4].file_path = 1

(***************************************************************************)
(* A run during which the repository becomes visible.  The fallback to     *)
(* "master" repeats the repository lookup that has just answered 404, so   *)
(* it can end in a file list only when GitHub answers the second lookup    *)
(* differently from the first.                                              *)
(***************************************************************************)
\* GitHub: the repository becomes visible (made public, access granted, a
\* transient 404 is over) while the resolver is looking it up.
RepoAppears ==
    /\ pc = "ResolvingTree"
    /\ fetch_pc = "repo_lookup"
    /\ ~repo_exists
    /\ repo_exists' = TRUE
    /\ UNCHANGED <<pc, outcome, error, url_ok, branch, max_workers, repo_branches,
                   fetchVars, poolVars, embedVars, storeVars, stats, ctorVars,
                   fnVars>>

\* ingest_repository(repo_url) with the default branch "main" on a repository
\* that is not visible yet.
InitFallback ==
    /\ Init
    /\ url_ok
    /\ branch = "main"
    /\ ~repo_exists

NextFallback ==
    \/ ParseUrl
    \/ RepoAppears
    \/ RepoLookup
    \/ TreeLookup
    \/ SubmitFiles
    \/ \E f \in FileIds : StartTask(f)
    \/ \E f \in FileIds : FinishTask(f)
    \/ \E f \in FileIds : CollectResult(f)
    \/ FinishProcessing
    \/ EmbedBatch
    \/ EmbedReturn
    \/ StoreInsert
    \/ StoreFlush
    \/ StoreReturn

SpecFallback == InitFallback /\ [][NextFallback]_vars

\* C27: the branch field of every record, in the results of the tasks and in
\* the aggregate list, is the branch embedded in the URLs of the descriptor of
\* its file, which is the branch whose tree the resolver listed.
C27_BranchOfRecords ==
    pc \notin {"Parse", "ResolvingTree"} =>
        /\ \A f \in FileIds :
             /\ files[f].url_branch = fetch_branch
             /\ \A k \in 1..Len(result[f].records) :
                  result[f].records[k].branch = files[f].url_branch
        /\ \A k \in 1..Len(all_chunk_metadata) :
             all_chunk_metadata[k].branch = fetch_branch

(***************************************************************************)
(* process_file: the link fields of the record of one chunk.               *)
(***************************************************************************)
\* Bound: number of external links of a file.
MaxLinks == 11

\* external_links[:10]
ExternalLinksKept == 10

\* The image links a file may hold, each with Path(link).name.lower() and the
\* parts of that name between its dots.
ImageLinks ==
    {[url |-> "img/a.png", name |-> "a.png", parts |-> {"a", "png"}],
     [url |-> "img/b.png", name |-> "b.png", parts |-> {"b", "png"}]}

\* The attachment links a file may hold.
AttachmentLinks == {[url |-> "doc/d.pdf", name |-> "d.pdf", parts |-> {"d", "pdf"}]}

\* The lists without repetition over a set of at most two links: what
\* list(set(..)) can give.
ListsOf(S) ==
    {<<>>} \cup {<<x>> : x \in S}
    \cup {p \in {<<x, y>> : x \in S, y \in S} : p[1] # p[2]}

\* A chunk text, in lower case, as the set of the names and name parts that
\* occur in it; a text that holds a name holds its parts.
ChunkTexts ==
    {t \in SUBSET {"a.png", "b.png", "d.pdf", "a", "b", "d", "png", "pdf"} :
        \A l \in ImageLinks \cup AttachmentLinks : l.name \in t => l.parts \subseteq t}

\* img_name in chunk.lower() or any(part in chunk.lower() for part in img_name.split('.'))
ImageInChunk(l, text) == l.name \in text \/ l.parts \cap text # {}

\* att_name in chunk.lower()
AttachmentInChunk(l, text) == l.name \in text

\* json.dumps of a list.
JsonDumps(l) == [json |-> l]

\* Mutant: every external link is kept.
FirstLinksMut(l) == l

\* external_links[:10]
FirstLinks(l) == SubSeq(l, 1, Min(Len(l), ExternalLinksKept))

\* The link fields of chunk_metadata for a chunk of a file whose links are f.
LinkFields(f, text) ==
    LET chunk_images == SelectSeq(f.image_links, LAMBDA l : ImageInChunk(l, text))
        chunk_attachments ==
            SelectSeq(f.attachment_links, LAMBDA l : AttachmentInChunk(l, text))
    IN  [has_images |-> Len(chunk_images) > 0,
         image_links |-> JsonDumps([k \in 1..Len(chunk_images) |-> chunk_images[k].url]),
         image_count |-> Len(chunk_images),
         attachment_links |->
            JsonDumps([k \in 1..Len(chunk_attachments) |-> chunk_attachments[k].url]),
         has_links |-> Len(f.external_links) > 0,
         external_links |-> JsonDumps(FirstLinks(f.external_links))]

\* Lines 705-746 for one chunk.
ScopeLinks ==
    /\ fn_pc = "call"
    /\ fn_out' = LinkFields(fn_in.file, fn_in.chunk)
    /\ fn_pc' = "returned"
    /\ UNCHANGED <<fn_in, pipelineVars, ctorVars>>

\* The links extract_images_and_links returned for the file, each list
\* without repetition, and the text of one of its chunks.
InitLinks ==
    /\ PipelineIdle
    /\ Constructed
    /\ fn_pc = "call"
    /\ fn_out = <<>>
    /\ \E imgs \in ListsOf(ImageLinks), atts \in ListsOf(AttachmentLinks),
          n \in 0..MaxLinks, text \in ChunkTexts :
         fn_in = [file |-> [image_links |-> imgs, attachment_links |-> atts,
                            external_links |-> [k \in 1..n |-> k]],
                  chunk |-> text]

NextLinks == ScopeLinks

SpecLinks == InitLinks /\ [][NextLinks]_vars

\* The elements of a list.
Range(l) == {l[k] : k \in 1..Len(l)}

\* The URLs of a list of links.
Urls(links) == {links[k].url : k \in 1..Len(links)}

\* C28: on the record of a chunk the image list and the attachment list hold
\* links of the file only, image_count is the length of the image list,
\* has_images says whether image_count is positive, the external-link list
\* holds at most 10 links, all of them external links of the file, and
\* has_links says whether the file has an external link.
C28_LinkFields ==
    fn_pc = "returned" =>
        /\ Range(fn_out.image_links.json) \subseteq Urls(fn_in.file.image_links)
        /\ Range(fn_out.attachment_links.json) \subseteq Urls(fn_in.file.attachment_links)
        /\ fn_out.image_count = Len(fn_out.image_links.json)
        /\ fn_out.has_images <=> fn_out.image_count > 0
        /\ Len(fn_out.external_links.json) <= 10
        /\ Range(fn_out.external_links.json) \subseteq Range(fn_in.file.external_links)
        /\ fn_out.has_links <=> Len(fn_in.file.external_links) >= 1

\* A file with two images, an attachment and 11 external links; the chunk
\* names one of the images only.
C28_Witness ==
    /\ fn_pc = "returned"
    /\ Len(fn_in.file.image_links) = 2
    /\ Len(fn_in.file.attachment_links) = 1
    /\ Len(fn_in.file.external_links) = 11
    /\ fn_out.image_count = 1
    /\ fn_out.attachment_links.json = <<>>
    /\ Len(fn_out.external_links.json) = 10

\* ---------------------------------------------------------------------
\* _detect_language: the language of a file from its extension, or from
\* signatures found in its content when the extension is not in the table.
\* ---------------------------------------------------------------------

\* extension_map of _detect_language.
extension_map ==
    [e \in {".py", ".js", ".ts", ".java", ".cpp", ".c", ".h", ".css", ".html",
            ".xml", ".md", ".rst", ".txt", ".json", ".yaml", ".yml", ".sh",
            ".bat", ".go", ".rs", ".rb", ".php", ".sql"} |->
        CASE e = ".py" -> "python"
          [] e = ".js" -> "javascript"
          [] e = ".ts" -> "typescript"
          [] e = ".java" -> "java"
          [] e = ".cpp" -> "cpp"
          [] e \in {".c", ".h"} -> "c"
          [] e = ".css" -> "css"
          [] e = ".html" -> "html"
          [] e = ".xml" -> "xml"
          [] e = ".md" -> "markdown"
          [] e = ".rst" -> "rst"
          [] e = ".txt" -> "text"
          [] e = ".json" -> "json"
          [] e \in {".yaml", ".yml"} -> "yaml"
          [] e = ".sh" -> "shell"
          [] e = ".bat" -> "batch"
          [] e = ".go" -> "go"
          [] e = ".rs" -> "rust"
          [] e = ".rb" -> "ruby"
          [] e = ".php" -> "php"
          [] e = ".sql" -> "sql"]

\* The languages of the patterns dictionary, in its insertion order.
pattern_langs ==
    <<"python", "javascript", "java", "cpp", "css", "html", "markdown">>

\* The number of signatures each language of the patterns dictionary has.
lang_patterns ==
    [lang \in Range(pattern_langs) |->
        CASE lang = "python" -> 4
          [] lang = "javascript" -> 4
          [] lang \in {"java", "cpp", "css", "html", "markdown"} -> 3]

\* The largest number of fragments a content is made of.
MaxFragments == 3

\* The matches a language needs to be detected from the content.
MinMatches == 2

\* Lines a content may hold.  Each is chosen to match some signatures and
\* not the others.
Fragments ==
    {"def f", "import os", "from os import path", "class A",
     "public class A", "private int", "function f", "let x", "var x",
     "#include", "std::", ".a {", "@media", "<div>", "<!DOCTYPE",
     "# T", "[a](b)"}

\* re.search(pattern, fragment, re.MULTILINE) for the signature number k of
\* lang.  "from os import path" holds "import path" and "public class A"
\* holds "class A", so each matches two signatures.
Matches(lang, k, fragment) ==
    CASE lang = "python" /\ k = 1 -> fragment = "def f"
      [] lang = "python" /\ k = 2 -> fragment \in {"import os", "from os import path"}
      [] lang = "python" /\ k = 3 -> fragment = "from os import path"
      [] lang = "python" /\ k = 4 -> fragment \in {"class A", "public class A"}
      [] lang = "javascript" /\ k = 1 -> fragment = "function f"
      [] lang = "javascript" /\ k = 2 -> FALSE
      [] lang = "javascript" /\ k = 3 -> fragment = "let x"
      [] lang = "javascript" /\ k = 4 -> fragment = "var x"
      [] lang = "java" /\ k = 1 -> fragment = "public class A"
      [] lang = "java" /\ k = 2 -> fragment = "private int"
      [] lang = "java" /\ k = 3 -> FALSE
      [] lang = "cpp" /\ k = 1 -> fragment = "#include"
      [] lang = "cpp" /\ k = 2 -> fragment = "std::"
      [] lang = "cpp" /\ k = 3 -> FALSE
      [] lang = "css" /\ k = 1 -> fragment = ".a {"
      [] lang = "css" /\ k = 2 -> FALSE
      [] lang = "css" /\ k = 3 -> fragment = "@media"
      [] lang = "html" /\ k = 1 -> FALSE
      [] lang = "html" /\ k = 2 -> fragment = "<div>"
      [] lang = "html" /\ k = 3 -> fragment = "<!DOCTYPE"
      [] lang = "markdown" /\ k = 1 -> fragment = "# T"
      [] lang = "markdown" /\ k = 2 -> fragment = "[a](b)"
      [] lang = "markdown" /\ k = 3 -> FALSE

\* The signatures of lang found somewhere in the content.
MatchedPatterns(lang, content) ==
    {k \in 1..lang_patterns[lang] : \E fragment \in content : Matches(lang, k, fragment)}

\* A language whose every match counts for two.
EnoughMatchesMut(lang, content) ==
    2 * Cardinality(MatchedPatterns(lang, content)) >= MinMatches

\* matches >= 2
EnoughMatches(lang, content) ==
    Cardinality(MatchedPatterns(lang, content)) >= MinMatches

\* The function itself: the table first, then the first language of the
\* patterns dictionary with enough matches, then 'unknown'.
_detect_language(content, file_extension) ==
    IF file_extension \in DOMAIN extension_map
    THEN extension_map[file_extension]
    ELSE LET hits == {i \in 1..Len(pattern_langs) :
                         EnoughMatches(pattern_langs[i], content)}
         IN  IF hits = {}
             THEN "unknown"
             ELSE pattern_langs[CHOOSE i \in hits : \A j \in hits : i <= j]

\* Extensions a file may have: those of the table and some outside it.
Extensions == DOMAIN extension_map \cup {"", ".PY", ".ino", ".cfg"}

DetectLanguage ==
    /\ fn_pc = "call"
    /\ fn_pc' = "returned"
    /\ fn_out' = _detect_language(fn_in.content, fn_in.file_extension)
    /\ UNCHANGED <<fn_in, pipelineVars, ctorVars>>

InitDetect ==
    /\ PipelineIdle
    /\ Constructed
    /\ fn_pc = "call"
    /\ fn_out = <<>>
    /\ \E content \in {c \in SUBSET Fragments : Cardinality(c) <= MaxFragments},
          file_extension \in Extensions :
         fn_in = [content |-> content, file_extension |-> file_extension]

NextDetect == DetectLanguage

SpecDetect == InitDetect /\ [][NextDetect]_vars

\* C29: an extension of the table decides the language whatever the content
\* is; for any other extension a language is returned only when at least 2
\* of its signatures match the content, and 'unknown' is returned when no
\* language has 2 matching signatures.
C29_DetectLanguage ==
    fn_pc = "returned" =>
        IF fn_in.file_extension \in DOMAIN extension_map
        THEN fn_out = extension_map[fn_in.file_extension]
        ELSE /\ fn_out # "unknown" =>
                  /\ fn_out \in Range(pattern_langs)
                  /\ Cardinality(MatchedPatterns(fn_out, fn_in.content)) >= 2
             /\ (\A lang \in Range(pattern_langs) :
                    Cardinality(MatchedPatterns(lang, fn_in.content)) < 2)
                  => fn_out = "unknown"

\* A file without a known extension whose content has one signature of
\* javascript and two of markdown.
C29_Witness ==
    /\ fn_pc = "returned"
    /\ fn_in.file_extension = ".ino"
    /\ fn_in.content = {"let x", "# T", "[a](b)"}
    /\ fn_out = "markdown"

\* ---------------------------------------------------------------------
\* _extract_code_elements: the functions, classes and imports that regular
\* expressions find in a content, per language.
\* ---------------------------------------------------------------------

\* The entries kept per category.
ElementLimit == 20

\* The largest number of distinct definitions of one category in a content.
MaxNames == 21

\* The largest number of definitions of one category written a second time.
MaxRepeats == 1

\* The ways a content may write a function, a class and an import, one per
\* line:  def f(x):  |  function f() {  |  f = function() {  |
\* const f = (x) => x  |  f: function() {  |  public void f() {  ;
\* class A:  |  public class A {  ;
\* import os  |  import x from 'y'  |  import a.b;
FunctionForms == <<"def", "function", "assign", "const", "colon", "method">>

ClassForms == <<"class", "public_class">>

ImportForms == <<"py_import", "js_import", "java_import">>

\* The lines of a content with n definitions written in the given forms in
\* turn, the first d of them written again in the next form.
Definitions(forms, n, d) ==
    [k \in 1..n |-> [form |-> forms[((k - 1) % Len(forms)) + 1], name |-> k]]
    \o [k \in 1..Min(n, d) |-> [form |-> forms[(k % Len(forms)) + 1], name |-> k]]

\* The regular expressions of each language, per category.
ElementPatterns(language) ==
    CASE language = "python" ->
            [functions |-> <<"py_def">>, classes |-> <<"class">>,
             imports |-> <<"py_import">>]
      [] language = "javascript" ->
            [functions |-> <<"js_function", "js_assign", "js_const", "js_colon">>,
             classes |-> <<"class">>, imports |-> <<"js_import">>]
      [] language = "java" ->
            [functions |-> <<"java_method">>, classes |-> <<"java_class">>,
             imports |-> <<"java_import">>]
      [] OTHER -> [functions |-> <<>>, classes |-> <<>>, imports |-> <<>>]

\* Whether a regular expression matches in a line.  The Java method pattern
\* (an optional modifier, a word, a word, a parenthesis) also matches
\* "def f(" and "function f("; the Python import pattern also matches the
\* start of the two other import forms.
PatternMatch(pattern, line) ==
    CASE pattern = "py_def" -> line.form = "def"
      [] pattern = "js_function" -> line.form = "function"
      [] pattern = "js_assign" -> line.form = "assign"
      [] pattern = "js_const" -> line.form = "const"
      [] pattern = "js_colon" -> line.form = "colon"
      [] pattern = "java_method" -> line.form \in {"def", "function", "method"}
      [] pattern \in {"class", "java_class"} -> line.form \in {"class", "public_class"}
      [] pattern = "py_import" -> line.form \in {"py_import", "js_import", "java_import"}
      [] pattern = "js_import" -> line.form = "js_import"
      [] pattern = "java_import" -> line.form = "java_import"

\* What re.findall keeps of a match: the group (a name) of the function and
\* class patterns, the whole matched text of the import patterns.
MatchValue(pattern, line) ==
    IF pattern \in {"py_import", "js_import", "java_import"}
    THEN <<pattern, line.form, line.name>>
    ELSE line.name

\* re.findall(pattern, content)
findall(pattern, content) ==
    LET hits == SelectSeq(content, LAMBDA line : PatternMatch(pattern, line))
    IN  [k \in 1..Len(hits) |-> MatchValue(pattern, hits[k])]

\* The list with the elements of l shifted round by r places.
Rotate(l, r) ==
    [k \in 1..Len(l) |-> l[((k - 1 + r) % Len(l)) + 1]]

\* A list made from a list without going through a set: repeats stay.
ListOfSetMut(l, r) == Rotate(l, r)

\* list(set(l)): the distinct elements of l, in an order the interpreter
\* chooses; the orders modelled are the rotations of the order of first
\* occurrence.
ListOfSet(l, r) ==
    LET first == {i \in 1..Len(l) : \A j \in 1..(i - 1) : l[j] # l[i]}
        distinct == [k \in 1..Cardinality(first) |->
                        l[CHOOSE i \in first : Cardinality({j \in first : j <= i}) = k]]
    IN  Rotate(distinct, r)

\* A slice that keeps everything.
FirstElementsMut(l) == l

\* l[:20]
FirstElements(l) == SubSeq(l, 1, Min(Len(l), ElementLimit))

\* The matches of the function patterns: one findall for Python and Java,
\* the findalls of the four patterns one after the other for JavaScript
\* (which is not made a set before the last loop).
FoundFunctions(content, language, r) ==
    LET ps == ElementPatterns(language).functions
    IN  CASE language = "javascript" ->
                findall(ps[1], content) \o findall(ps[2], content)
                \o findall(ps[3], content) \o findall(ps[4], content)
          [] language \in {"python", "java"} ->
                ListOfSet(findall(ps[1], content), r)
          [] OTHER -> <<>>

\* The matches of the single class or import pattern of a language.
FoundOnce(key, content, language, r) ==
    LET ps == ElementPatterns(language)[key]
    IN  IF ps = <<>> THEN <<>> ELSE ListOfSet(findall(ps[1], content), r)

\* The function itself.
_extract_code_elements(content, language, r) ==
    [functions |-> FirstElements(ListOfSet(FoundFunctions(content, language, r), r)),
     classes |-> FirstElements(ListOfSet(FoundOnce("classes", content, language, r), r)),
     imports |-> FirstElements(ListOfSet(FoundOnce("imports", content, language, r), r))]

\* The numbers of functions tried.
DefinitionCounts == {0, 1, 2} \cup ((ElementLimit - 1)..MaxNames)

\* The numbers of classes and of imports tried.
FewOrMany == {0, 2, MaxNames}

\* The ways of writing functions a content may use: those of one language,
\* or all of them in turn.
FunctionStyles ==
    {<<"def">>, <<"function", "assign", "const", "colon">>, <<"method">>,
     FunctionForms}

\* The languages tried: the three with patterns and two without.
ElementLanguages == {"python", "javascript", "java", "typescript", "text"}

ExtractCodeElements ==
    /\ fn_pc = "call"
    /\ fn_pc' = "returned"
    /\ \E r \in 0..MaxNames :
         fn_out' = _extract_code_elements(fn_in.content, fn_in.language, r)
    /\ UNCHANGED <<fn_in, pipelineVars, ctorVars>>

InitElements ==
    /\ PipelineIdle
    /\ Constructed
    /\ fn_pc = "call"
    /\ fn_out = <<>>
    /\ \E nf \in DefinitionCounts, nc \in FewOrMany, ni \in FewOrMany,
          d \in 0..MaxRepeats,
          style \in FunctionStyles, language \in ElementLanguages :
         fn_in = [content |-> Definitions(style, nf, d)
                              \o Definitions(ClassForms, nc, d)
                              \o Definitions(ImportForms, ni, d),
                  language |-> language]

NextElements == ExtractCodeElements

SpecElements == InitElements /\ [][NextElements]_vars

\* Everything the patterns of a category of a language match in a content.
AllMatches(key, content, language) ==
    LET ps == ElementPatterns(language)[key]
    IN  {MatchValue(ps[p], content[i]) :
            <<p, i>> \in {q \in (DOMAIN ps) \X (DOMAIN content) :
                            PatternMatch(ps[q[1]], content[q[2]])}}

\* A list without a repeated element.
NoDuplicates(l) == \A i, j \in 1..Len(l) : l[i] = l[j] => i = j

\* C30: each of the three lists has no duplicates and at most 20 entries,
\* all of them matches of the language's patterns in the content; when the
\* content has at most 20 distinct function names the list of functions
\* holds exactly those; a language without patterns gives three empty lists.
C30_CodeElements ==
    fn_pc = "returned" =>
        /\ \A key \in {"functions", "classes", "imports"} :
              /\ NoDuplicates(fn_out[key])
              /\ Len(fn_out[key]) <= 20
              /\ Range(fn_out[key]) \subseteq
                     AllMatches(key, fn_in.content, fn_in.language)
        /\ Cardinality(AllMatches("functions", fn_in.content, fn_in.language)) <= 20
              => Range(fn_out.functions) =
                     AllMatches("functions", fn_in.content, fn_in.language)
        /\ fn_in.language \notin {"python", "javascript", "java"}
              => fn_out = [functions |-> <<>>, classes |-> <<>>, imports |-> <<>>]

\* A JavaScript content with 21 distinct functions, one of them written
\* twice, and more than 20 classes: 20 of each are returned.
C30_Witness ==
    /\ fn_pc = "returned"
    /\ fn_in.language = "javascript"
    /\ Cardinality(AllMatches("functions", fn_in.content, "javascript")) > 20
    /\ Len(SelectSeq(fn_in.content, LAMBDA line : line.form = "class")) > 10
    /\ Len(fn_out.functions) = 20
    /\ Len(fn_out.classes) = 20

\* ---------------------------------------------------------------------
\* extract_images_and_links: the image, attachment and external links that
\* regular expressions find in a content.
\* ---------------------------------------------------------------------

\* The largest number of link references in a content.
MaxRefs == 3

\* The link references a content may hold, each on a line of its own:
\*   ![a](img/a.png)   ![a](https://h/a.png)   <img src="https://h/a.png">
\*   ![w](https://h/w.webp)   [d](https://h/d.pdf)   href="d.zip"
\*   [t](https://h/p)   https://h/p
\* A reference is the form it is written in and the URL it names.
LinkReferences ==
    {[form |-> "md_image", absolute |-> FALSE, path |-> "img/a.png"],
     [form |-> "md_image", absolute |-> TRUE, path |-> "a.png"],
     [form |-> "html_img", absolute |-> TRUE, path |-> "a.png"],
     [form |-> "md_image", absolute |-> TRUE, path |-> "w.webp"],
     [form |-> "md_link", absolute |-> TRUE, path |-> "d.pdf"],
     [form |-> "href", absolute |-> FALSE, path |-> "d.zip"],
     [form |-> "md_link", absolute |-> TRUE, path |-> "p"],
     [form |-> "bare", absolute |-> TRUE, path |-> "p"]}

\* The paths that end in an image suffix of the direct-URL image pattern.
ImagePaths == {"img/a.png", "a.png", "w.webp"}

\* The paths that end in a suffix of the attachment patterns.
AttachmentPaths == {"d.pdf", "d.zip"}

\* The paths that hold one of '.png', '.jpg', '.jpeg', '.gif', '.svg',
\* '.pdf', '.doc'.
FilteredPaths == {"img/a.png", "a.png", "d.pdf"}

\* self.image_patterns, attachment_patterns and link_patterns, in order.
image_patterns == <<"md_image", "html_img", "direct_image">>

attachment_patterns == <<"md_attachment", "href_attachment">>

link_patterns == <<"md_link", "href", "direct_url">>

\* Whether a pattern matches in the line of a reference.  A Markdown link
\* pattern also matches inside a Markdown image, and the direct-URL
\* patterns match an absolute URL in whatever form it is written.
LinkPatternHit(pattern, ref) ==
    CASE pattern = "md_image" -> ref.form = "md_image"
      [] pattern = "html_img" -> ref.form = "html_img"
      [] pattern = "direct_image" -> ref.absolute /\ ref.path \in ImagePaths
      [] pattern = "md_attachment" ->
            ref.form \in {"md_link", "md_image"} /\ ref.path \in AttachmentPaths
      [] pattern = "href_attachment" ->
            ref.form = "href" /\ ref.path \in AttachmentPaths
      [] pattern = "md_link" -> ref.form \in {"md_link", "md_image"} /\ ref.absolute
      [] pattern = "href" -> ref.form = "href"
      [] pattern = "direct_url" -> ref.absolute

\* The URL group of every match of a pattern, in the order of the content.
finditer(pattern, content) ==
    LET hits == SelectSeq(content, LAMBDA ref : LinkPatternHit(pattern, ref))
    IN  [k \in 1..Len(hits) |-> [absolute |-> hits[k].absolute,
                                 base |-> "", path |-> hits[k].path]]

\* The matches of the patterns of a list, one pattern after the other.
AllFound(patterns, content) ==
    LET n == Len(patterns)
    IN  finditer(patterns[1], content)
        \o (IF n >= 2 THEN finditer(patterns[2], content) ELSE <<>>)
        \o (IF n >= 3 THEN finditer(patterns[3], content) ELSE <<>>)

\* urljoin(base_url, url) when base_url is set and url is not absolute.
Resolved(base_url, url) ==
    IF base_url # "" /\ ~url.absolute
    THEN [absolute |-> TRUE, base |-> base_url, path |-> url.path]
    ELSE url

\* The test an external link passes.
IsExternal(url) == url.absolute /\ url.path \notin FilteredPaths

\* The function itself; r is the order the three sets are listed in.
extract_images_and_links(content, base_url, r) ==
    LET images == AllFound(image_patterns, content)
        attachments == AllFound(attachment_patterns, content)
        links == AllFound(link_patterns, content)
    IN  [image_links |->
            ListOfSet([k \in 1..Len(images) |-> Resolved(base_url, images[k])], r),
         attachment_links |->
            ListOfSet([k \in 1..Len(attachments) |->
                          Resolved(base_url, attachments[k])], r),
         external_links |-> ListOfSet(SelectSeq(links, IsExternal), r)]

\* The same references in another order or another number of times.
Rearrangements == {"reversed", "doubled", "first_again"}

Rearranged(content, how) ==
    CASE how = "reversed" -> [k \in 1..Len(content) |-> content[Len(content) + 1 - k]]
      [] how = "doubled" -> content \o content
      [] how = "first_again" ->
            IF content = <<>> THEN content ELSE content \o <<content[1]>>

\* The base URLs tried: none, and the one process_file builds.
BaseUrls == {"", "https://github.com/o/r/blob/main/"}

\* The orders of a set tried.
SetOrders == 0..1

\* The function applied to a content and to a rearrangement of it.
ExtractBoth ==
    /\ fn_pc = "call"
    /\ fn_pc' = "extracted"
    /\ \E r \in SetOrders :
         fn_out' = [first |-> extract_images_and_links(fn_in.content, fn_in.base_url, r),
                    other |-> extract_images_and_links(fn_in.other, fn_in.base_url, r),
                    again |-> <<>>]
    /\ UNCHANGED <<fn_in, pipelineVars, ctorVars>>

\* The function applied to the first content once more.
ExtractAgain ==
    /\ fn_pc = "extracted"
    /\ fn_pc' = "returned"
    /\ \E r \in SetOrders :
         fn_out' = [fn_out EXCEPT
                       !.again = extract_images_and_links(fn_in.content, fn_in.base_url, r)]
    /\ UNCHANGED <<fn_in, pipelineVars, ctorVars>>

InitExtract ==
    /\ PipelineIdle
    /\ Constructed
    /\ fn_pc = "call"
    /\ fn_out = <<>>
    /\ \E n \in 0..MaxRefs :
         \E content \in [1..n -> LinkReferences], how \in Rearrangements,
            base_url \in BaseUrls :
           fn_in = [content |-> content, other |-> Rearranged(content, how),
                    base_url |-> base_url]

NextExtract == ExtractBoth \/ ExtractAgain

SpecExtract == InitExtract /\ [][NextExtract]_vars

\* The three outputs of one extraction.
LinkOutputs == {"image_links", "attachment_links", "external_links"}

AttemptedIndexes == {init_calls[k].arg : k \in CallsOf("create_index")}

\* The vector index was attempted and failed.
VectorIndexFailed ==
    \E k \in FailedIndexes : init_calls[k].arg = "embedding"

\* The calls of load() that follow every index attempt.
LoadsAfterIndexes ==
    {k \in CallsOf("load") : \A j \in CallsOf("create_index") : j < k}

\* C32: on a newly created collection, once the index creations are over,
\* a failed vector index means that no scalar index was attempted, while
\* after a vector index that succeeded every one of the five scalar fields
\* was attempted, once and in order, whichever of them failed; in both cases
\* load() is the next call, and the setup ends only after it.
C32_IndexFailureScope ==
    (CreatedAt # 0 /\ init_pc \in {"load", "ready", "failed"}) =>
        /\ Cardinality({k \in CallsOf("create_index") :
                           init_calls[k].arg = "embedding"}) = 1
        /\ IF VectorIndexFailed
           THEN AttemptedIndexes = {"embedding"}
           ELSE /\ AttemptedIndexes = {"embedding"} \cup Range(scalar_indexes)
                /\ Cardinality(CallsOf("create_index")) = 1 + Len(scalar_indexes)
                /\ \A i \in 1..Len(scalar_indexes) :
                      init_calls[CreatedAt + 1 + i].op = "create_index"
                      /\ init_calls[CreatedAt + 1 + i].arg = scalar_indexes[i]
        /\ init_pc = "load" => ENABLED LoadCollection
        /\ init_pc \in {"ready", "failed"} => LoadsAfterIndexes # {}
        /\ init_pc = "ready" => coll_loaded

\* A setup that returned with the collection loaded after the vector index
\* failed: no scalar index was attempted.
C32_Witness ==
    /\ CreatedAt # 0
    /\ init_pc = "ready"
    /\ VectorIndexFailed
    /\ Cardinality(CallsOf("create_index")) = 1
    /\ init_calls[Len(init_calls)] = Call("load", "created", TRUE)
    /\ coll_loaded
====
